---- MODULE Spec2Model ----
\* Slide library index and search engine (src/src/slide_library.py):
\* SlideLibraryManager over a theme-organised directory of slide files.
\*
\* Text is modelled with TLA+ strings, so keyword matching, lower-casing,
\* tokenising and name ordering are computed character by character as the
\* Python code computes them.  A rounded score (round(x, 3)) is an integer
\* number of thousandths: classification confidences are computed as exact
\* rationals <<num, den>>, search scores in binary64 arithmetic.
EXTENDS Integers, Sequences, FiniteSets, TLC

VARIABLES fs, slides, themes, _indexed, last, scan,
          prs, slide_count, sections_added, saved, _library_manager, set_order

vars == <<fs, slides, themes, _indexed, last, scan,
          prs, slide_count, sections_added, saved, _library_manager, set_order>>

libraryVars == <<fs, slides, themes, _indexed>>

builderVars == <<prs, slide_count, sections_added, saved>>

toolVars == <<_library_manager>>

\* ------------------------------------------------------------------------
\* Strings (Python str methods used by the module)
\* ------------------------------------------------------------------------

\* The characters of the model's names, texts and queries, in code-point
\* order (Python compares and sorts str by code point).  ControlChars are
\* U+0009..U+000D and U+001C..U+001F, the ASCII characters str.isspace() holds
\* for besides the space; the vertical tab and U+001C..U+001F have no escape
\* and stand in the literal as they are.  Then come U+0020..U+007E without the
\* grave accent U+0060, which no string literal can hold.
ControlChars == "\t\n\f\r"

PrintableChars ==
    " !\"#$%&'()*+,-./0123456789:;<=>?@ABCDEFGHIJKLMNOPQRSTUVWXYZ[\\]^_"

CodePoints == ControlChars \o PrintableChars \o "abcdefghijklmnopqrstuvwxyz{|}~"

UpperChars == "ABCDEFGHIJKLMNOPQRSTUVWXYZ"

LowerChars == "abcdefghijklmnopqrstuvwxyz"

CharAt(s, i) == SubSeq(s, i, i)

\* Position of character c in string s, 0 when absent.
IndexOf(s, c) ==
    IF \E i \in 1..Len(s) : CharAt(s, i) = c
    THEN CHOOSE i \in 1..Len(s) : CharAt(s, i) = c
    ELSE 0

\* c.lower() for each character of the model
LowerMap ==
    [c \in {CharAt(CodePoints, i) : i \in 1..Len(CodePoints)} |->
        LET i == IndexOf(UpperChars, c) IN IF i = 0 THEN c ELSE CharAt(LowerChars, i)]

LowerChar(c) == IF c \in DOMAIN LowerMap THEN LowerMap[c] ELSE c

\* str.lower()
RECURSIVE Lower(_)
Lower(s) == IF s = "" THEN "" ELSE LowerChar(CharAt(s, 1)) \o Lower(Tail(s))

\* `sub in s`
Contains(s, sub) ==
    \E i \in 1..(Len(s) - Len(sub) + 1) : SubSeq(s, i, i + Len(sub) - 1) = sub

\* ord(c) for each character of CodePoints
ord ==
    [c \in {CharAt(CodePoints, i) : i \in 1..Len(CodePoints)} |->
        LET i == IndexOf(CodePoints, c)
        IN  IF i <= Len(ControlChars)
            THEN <<9, 10, 11, 12, 13, 28, 29, 30, 31>>[i]
            ELSE IF i <= Len(ControlChars) + Len(PrintableChars)
                 THEN 31 + i - Len(ControlChars)
                 ELSE 32 + i - Len(ControlChars)]

\* c.isspace() for a character of CodePoints: the whitespace that str.strip()
\* and str.split() remove.  The non-ASCII spaces are no characters of a
\* string literal.
IsSpace(c) == ord[c] \in {9, 10, 11, 12, 13, 28, 29, 30, 31, 32}

\* str.strip()
RECURSIVE LStrip(_)
LStrip(s) == IF s # "" /\ IsSpace(CharAt(s, 1)) THEN LStrip(Tail(s)) ELSE s

RECURSIVE RStrip(_)
RStrip(s) ==
    IF s # "" /\ IsSpace(CharAt(s, Len(s)))
    THEN RStrip(SubSeq(s, 1, Len(s) - 1))
    ELSE s

Strip(s) == LStrip(RStrip(s))

\* str.split() with no argument: runs of whitespace separate the tokens and
\* no empty token is produced.  cur is the token being read.
RECURSIVE SplitFrom(_, _)
SplitFrom(s, cur) ==
    IF s = ""
    THEN IF cur = "" THEN <<>> ELSE <<cur>>
    ELSE IF IsSpace(CharAt(s, 1))
         THEN IF cur = ""
              THEN SplitFrom(Tail(s), "")
              ELSE <<cur>> \o SplitFrom(Tail(s), "")
         ELSE SplitFrom(Tail(s), cur \o CharAt(s, 1))

Split(s) == SplitFrom(s, "")

\* a < b for str (code-point lexicographic order)
RECURSIVE StrLess(_, _)
StrLess(a, b) ==
    IF b = "" THEN FALSE
    ELSE IF a = "" THEN TRUE
    ELSE LET ca == ord[CharAt(a, 1)]
             cb == ord[CharAt(b, 1)]
         IN  IF ca # cb THEN ca < cb ELSE StrLess(Tail(a), Tail(b))

\* SortedNames in descending order.
RECURSIVE SortedNames_reversed(_)
SortedNames_reversed(S) ==
    IF S = {} THEN <<>>
    ELSE LET m == CHOOSE x \in S : \A y \in S \ {x} : StrLess(y, x)
         IN  <<m>> \o SortedNames_reversed(S \ {m})

\* sorted(names) for a set of distinct names
RECURSIVE SortedNames(_)
SortedNames(S) ==
    IF S = {} THEN <<>>
    ELSE LET m == CHOOSE x \in S : \A y \in S \ {x} : StrLess(x, y)
         IN  <<m>> \o SortedNames(S \ {m})

\* str(n) zero-padded to four digits: f"{n:04d}"
Pad4(n) ==
    LET d == ToString(n)
    IN  IF Len(d) >= 4 THEN d ELSE SubSeq("0000", 1, 4 - Len(d)) \o d

\* ------------------------------------------------------------------------
\* Sequences
\* ------------------------------------------------------------------------

Range(q) == {q[i] : i \in 1..Len(q)}

\* q[:n] for a list q and any integer n
SliceTo(q, n) ==
    IF n >= 0
    THEN SubSeq(q, 1, IF n < Len(q) THEN n ELSE Len(q))
    ELSE SubSeq(q, 1, IF Len(q) + n > 0 THEN Len(q) + n ELSE 0)

\* ------------------------------------------------------------------------
\* Classification taxonomy constants
\* ------------------------------------------------------------------------

PRIMARY_LABELS ==
    << "executive_summary", "solution_overview", "operational_details",
       "case_study", "compliance_security", "project_plan",
       "pricing", "other", "unclassified" >>

BACKEND_SECTIONS ==
    << "executive_summary", "client_understanding", "solution_overview",
       "delivery_model", "technology", "governance_compliance",
       "implementation", "team_leadership", "proof_points" >>

\* dict in declaration (= iteration) order
LABEL_KEYWORDS ==
    << [label |-> "executive_summary",
        keywords |-> << "executive summary", "overview", "strategic", "partnership",
                        "why foundever", "at a glance", "introduction" >>],
       [label |-> "solution_overview",
        keywords |-> << "solution", "approach", "capability", "platform", "ecosystem",
                        "offering", "service model", "our approach" >>],
       [label |-> "operational_details",
        keywords |-> << "process", "workflow", "staffing", "FTE", "headcount", "shift",
                        "scorecard", "quality", "site", "facility", "roster", "SOP",
                        "workforce", "scheduling", "training", "ramp", "attrition",
                        "org chart", "leadership", "account manager" >>],
       [label |-> "case_study",
        keywords |-> << "case study", "client example", "success story", "outcome",
                        "result", "before and after", "proof point", "testimonial" >>],
       [label |-> "compliance_security",
        keywords |-> << "compliance", "security", "certification", "SOC", "PCI",
                        "HIPAA", "GDPR", "regulatory", "audit", "risk", "governance",
                        "ISO", "NIST" >>],
       [label |-> "project_plan",
        keywords |-> << "implementation", "transition", "timeline", "milestone",
                        "go-live", "phase", "migration", "ramp plan", "project plan" >>],
       [label |-> "pricing",
        keywords |-> << "pricing", "cost", "rate", "commercial", "fee",
                        "investment", "budget" >>] >>

SECTION_REFINEMENT ==
    << [key |-> "team_leadership",
        keywords |-> << "org chart", "leadership", "escalation", "account manager",
                        "director", "VP", "management structure" >>,
        section |-> "team_leadership"],
       [key |-> "technology",
        keywords |-> << "platform", "tool", "software", "CRM", "telephony", "IVR",
                        "API", "AI", "automation", "analytics", "dashboard" >>,
        section |-> "technology"],
       [key |-> "delivery_model",
        keywords |-> << "FTE", "staffing", "site", "headcount", "shift", "roster",
                        "capacity", "facility", "location", "onshore", "offshore",
                        "nearshore" >>,
        section |-> "delivery_model"],
       [key |-> "solution_overview",
        keywords |-> << "process", "workflow", "SOP", "procedure", "methodology" >>,
        section |-> "solution_overview"] >>

\* The table with pricing sent to client_understanding.
LABEL_TO_PRIMARY_SECTION_client ==
    [ executive_summary   |-> "executive_summary",
      solution_overview   |-> "solution_overview",
      operational_details |-> "delivery_model",
      case_study          |-> "proof_points",
      compliance_security |-> "governance_compliance",
      project_plan        |-> "implementation",
      pricing             |-> "client_understanding",
      other               |-> "executive_summary",
      unclassified        |-> "executive_summary" ]

LABEL_TO_PRIMARY_SECTION ==
    [ executive_summary   |-> "executive_summary",
      solution_overview   |-> "solution_overview",
      operational_details |-> "delivery_model",
      case_study          |-> "proof_points",
      compliance_security |-> "governance_compliance",
      project_plan        |-> "implementation",
      pricing             |-> "executive_summary",
      other               |-> "executive_summary",
      unclassified        |-> "executive_summary" ]

\* ------------------------------------------------------------------------
\* Scores
\* ------------------------------------------------------------------------

\* Rationals as <<numerator, denominator>> with a positive denominator.
RatLess(a, b) == a[1] * b[2] < b[1] * a[2]

RatMin(a, b) == IF RatLess(b, a) THEN b ELSE a

\* round(x, 3) in thousandths; Python rounds an exact tie to the even digit.
Round3(r) ==
    LET n   == 1000 * r[1]
        q   == n \div r[2]
        rem == n - q * r[2]
    IN  IF 2 * rem > r[2] THEN q + 1
        ELSE IF 2 * rem < r[2] THEN q
        ELSE IF q % 2 = 0 THEN q ELSE q + 1

\* ------------------------------------------------------------------------
\* Python floats (IEEE 754 binary64, round to nearest, ties to even)
\* ------------------------------------------------------------------------
\* The search score is a product of floats that is then rounded to three
\* decimals, and which way round() goes at a decimal tie depends on the
\* rounding errors of the product, so the arithmetic is carried out exactly.
\* A natural number is a sequence of limbs, least significant first, without
\* leading zero limbs; a positive float is [m, e], 2^52 <= m < 2^53, of value
\* m * 2^e; the float 0.0 has m = <<>>.

LimbBits == 15

LimbBase == 2 ^ LimbBits

MantissaBits == 53

RECURSIVE BigNorm(_)
BigNorm(a) ==
    IF a # <<>> /\ a[Len(a)] = 0 THEN BigNorm(SubSeq(a, 1, Len(a) - 1)) ELSE a

RECURSIVE BigFromInt(_)
BigFromInt(n) ==
    IF n = 0 THEN <<>> ELSE <<n % LimbBase>> \o BigFromInt(n \div LimbBase)

RECURSIVE BigToInt(_)
BigToInt(a) == IF a = <<>> THEN 0 ELSE Head(a) + LimbBase * BigToInt(Tail(a))

RECURSIVE BigMulCarry(_, _, _)
BigMulCarry(a, d, carry) ==
    IF a = <<>> THEN BigFromInt(carry)
    ELSE LET t == Head(a) * d + carry
         IN  <<t % LimbBase>> \o BigMulCarry(Tail(a), d, t \div LimbBase)

\* a * d for a limb-sized d
BigMulSmall(a, d) == BigNorm(BigMulCarry(a, d, 0))

RECURSIVE BigAddCarry(_, _, _)
BigAddCarry(a, b, carry) ==
    IF a = <<>> /\ b = <<>> THEN BigFromInt(carry)
    ELSE LET x == IF a = <<>> THEN 0 ELSE Head(a)
             y == IF b = <<>> THEN 0 ELSE Head(b)
             t == x + y + carry
         IN  <<t % LimbBase>>
             \o BigAddCarry(IF a = <<>> THEN a ELSE Tail(a),
                            IF b = <<>> THEN b ELSE Tail(b), t \div LimbBase)

BigAdd(a, b) == BigNorm(BigAddCarry(a, b, 0))

\* a * LimbBase^k
BigShiftLimbs(a, k) == IF a = <<>> THEN a ELSE [i \in 1..k |-> 0] \o a

RECURSIVE BigMul(_, _)
BigMul(a, b) ==
    IF b = <<>> THEN <<>>
    ELSE BigAdd(BigMulSmall(a, Head(b)), BigShiftLimbs(BigMul(a, Tail(b)), 1))

\* Quotient and remainder of a by a limb-sized d, most significant limb first.
RECURSIVE BigDivFrom(_, _, _, _)
BigDivFrom(a, i, d, rem) ==
    IF i = 0 THEN [q |-> <<>>, r |-> rem]
    ELSE LET t    == rem * LimbBase + a[i]
             rest == BigDivFrom(a, i - 1, d, t % d)
         IN  [q |-> Append(rest.q, t \div d), r |-> rest.r]

\* The quotient without leading zero limbs
NormQ(x) == [q |-> BigNorm(x.q), r |-> x.r]

BigDivSmall(a, d) == NormQ(BigDivFrom(a, Len(a), d, 0))

RECURSIVE BitLen(_)
BitLen(n) == IF n = 0 THEN 0 ELSE 1 + BitLen(n \div 2)

BigBitLen(a) == IF a = <<>> THEN 0 ELSE LimbBits * (Len(a) - 1) + BitLen(a[Len(a)])

BigIsOdd(a) == a # <<>> /\ a[1] % 2 = 1

\* a * 2^n
BigShl(a, n) == BigShiftLimbs(BigMulSmall(a, 2 ^ (n % LimbBits)), n \div LimbBits)

ShrResult(x, dropped) ==
    [q |-> x.q, sticky |-> x.r # 0 \/ \E i \in 1..Len(dropped) : dropped[i] # 0]

\* floor(a / 2^n), and whether a nonzero remainder was dropped
BigShr(a, n) ==
    ShrResult(BigDivSmall(SubSeq(a, n \div LimbBits + 1, Len(a)), 2 ^ (n % LimbBits)),
              SubSeq(a, 1, IF n \div LimbBits < Len(a) THEN n \div LimbBits ELSE Len(a)))

\* h = [q, r] is a number and its last bit: q rounded up on a tie-or-more
RoundEven(h, more) ==
    IF h.r = 1 /\ (more \/ BigIsOdd(h.q)) THEN BigAdd(h.q, <<1>>) ELSE h.q

RoundHalf(t, sticky) == RoundEven(BigDivSmall(t.q, 2), t.sticky \/ sticky)

\* a / 2^n (n >= 1) rounded to the nearest integer, ties to even; sticky
\* tells that the exact value exceeds a / 2^n by less than one unit of a.
BigShrRound(a, n, sticky) == RoundHalf(BigShr(a, n - 1), sticky)

\* The float of mantissa q, which rounding may have carried to 2^53
Renorm(q, e) ==
    IF BigBitLen(q) > MantissaBits
    THEN [m |-> BigShr(q, 1).q, e |-> e + 1]
    ELSE [m |-> q, e |-> e]

RoundBits(n, e, sticky, len) ==
    IF len <= MantissaBits
    THEN [m |-> BigShl(n, MantissaBits - len), e |-> e - (MantissaBits - len)]
    ELSE Renorm(BigShrRound(n, len - MantissaBits, sticky), e + (len - MantissaBits))

\* The float nearest to n * 2^e (plus a sticky fraction of a unit of n).
RoundToFloat(n, e, sticky) ==
    IF n = <<>> THEN [m |-> <<>>, e |-> 0] ELSE RoundBits(n, e, sticky, BigBitLen(n))

FloatOfQuotient(x, e) == RoundToFloat(x.q, e, x.r # 0)

\* a / b for integers a >= 0, b > 0 (true division; also float("a/b" as a
\* decimal when b is a power of ten)
FloatOfRatio(a, b) ==
    FloatOfQuotient(BigDivSmall(BigShl(BigFromInt(a), MantissaBits + BitLen(b) + 1), b),
                    0 - (MantissaBits + BitLen(b) + 1))

FloatMul(x, y) == RoundToFloat(BigMul(x.m, y.m), x.e + y.e, FALSE)

FloatAdd(x, y) ==
    IF x.m = <<>> THEN y
    ELSE IF y.m = <<>> THEN x
    ELSE LET e == IF x.e < y.e THEN x.e ELSE y.e
         IN  RoundToFloat(BigAdd(BigShl(x.m, x.e - e), BigShl(y.m, y.e - e)), e, FALSE)

FloatHalf == FloatOfRatio(1, 2)

\* x > 1.0 (1.0 is [2^52, -52])
FloatAboveOne(x) ==
    /\ x.m # <<>>
    /\ \/ x.e > 1 - MantissaBits
       \/ x.e = 1 - MantissaBits /\ x.m # BigShl(<<1>>, MantissaBits - 1)

\* round(min(x, 1.0), 3) in thousandths, for a float x >= 0
FloatRound3(x) ==
    IF x.m = <<>> THEN 0
    ELSE IF FloatAboveOne(x) THEN 1000
    ELSE BigToInt(BigShrRound(BigMulSmall(x.m, 1000), 0 - x.e, FALSE))

\* ------------------------------------------------------------------------
\* Classification
\* ------------------------------------------------------------------------

\* kw.lower() for every keyword of the two tables, computed once
KeywordLower ==
    [kw \in UNION ({Range(LABEL_KEYWORDS[i].keywords) : i \in 1..Len(LABEL_KEYWORDS)}
                   \cup {Range(SECTION_REFINEMENT[i].keywords) :
                            i \in 1..Len(SECTION_REFINEMENT)}) |-> Lower(kw)]

\* [kw for kw in keywords if kw.lower() in s]
RECURSIVE MatchedKeywords(_, _)
MatchedKeywords(keywords, s) ==
    IF keywords = <<>> THEN <<>>
    ELSE (IF Contains(s, KeywordLower[Head(keywords)]) THEN <<Head(keywords)>> ELSE <<>>)
         \o MatchedKeywords(Tail(keywords), s)

\* The value put into `scores` for a label (lines 309-316) given the keywords
\* matched and whether a keyword occurs in the theme name; candidate = FALSE
\* when no keyword matched and the label gets no entry.
ScoreEntry(entry, matched, theme_match) ==
    [label     |-> entry.label,
     candidate |-> matched # <<>>,
     score     |-> RatMin(IF theme_match
                          THEN <<3 * Len(matched), 2 * Len(entry.keywords)>>
                          ELSE <<Len(matched), Len(entry.keywords)>>,
                          <<1, 1>>),
     matched   |-> matched]

\* LabelScore without the theme boost of lines 313-315.
LabelScore_noboost(entry, lower_theme, combined) ==
    ScoreEntry(entry, MatchedKeywords(entry.keywords, combined), FALSE)

\* One iteration of the label loop (lines 307-316).
LabelScore(entry, lower_theme, combined) ==
    ScoreEntry(entry,
               MatchedKeywords(entry.keywords, combined),
               \E i \in 1..Len(entry.keywords) :
                   Contains(lower_theme, KeywordLower[entry.keywords[i]]))

\* max() that keeps the last entry of maximal score.
RECURSIVE BestOf_last(_, _)
BestOf_last(best, rest) ==
    IF rest = <<>> THEN best
    ELSE BestOf_last(IF RatLess(Head(rest).score, best.score) THEN best ELSE Head(rest),
                     Tail(rest))

\* max(scores, key=...): the first entry, in insertion order, of maximal score
RECURSIVE BestOf(_, _)
BestOf(best, rest) ==
    IF rest = <<>> THEN best
    ELSE BestOf(IF RatLess(best.score, Head(rest).score) THEN Head(rest) ELSE best,
                Tail(rest))

\* BestLabel that returns no matched keywords.
BestLabel_unmatched(scores, best) ==
    IF scores = <<>>
    THEN [label |-> "unclassified", confidence |-> 0, matched_kw |-> <<>>]
    ELSE [label      |-> best.label,
          confidence |-> Round3(best.score),
          matched_kw |-> <<>>]

\* Lines 318-323: what _classify_text returns for the `scores` collected.
BestLabel(scores, best) ==
    IF scores = <<>>
    THEN [label |-> "unclassified", confidence |-> 0, matched_kw |-> <<>>]
    ELSE [label      |-> best.label,
          confidence |-> Round3(best.score),
          matched_kw |-> best.matched]

\* Lines 301-316: the entries of `scores`, in the order of LABEL_KEYWORDS.
LabelScores(lower_text, lower_theme) ==
    SelectSeq([i \in 1..Len(LABEL_KEYWORDS) |->
                  LabelScore(LABEL_KEYWORDS[i], lower_theme,
                             lower_theme \o " " \o lower_text)],
              LAMBDA e : e.candidate)

ClassifyScores(scores) ==
    BestLabel(scores, IF scores = <<>> THEN <<>> ELSE BestOf(Head(scores), Tail(scores)))

_classify_text(text, theme_name) ==
    ClassifyScores(LabelScores(Lower(IF Strip(text) = "" THEN theme_name ELSE text),
                               Lower(theme_name)))

\* RefineSection that settles for a single keyword hit.
RECURSIVE RefineSection_one(_, _)
RefineSection_one(table, lower_text) ==
    IF table = <<>> THEN "delivery_model"
    ELSE IF Len(MatchedKeywords(Head(table).keywords, lower_text)) >= 1
         THEN Head(table).section
         ELSE RefineSection_one(Tail(table), lower_text)

\* First refinement entry, in table order, with at least two keyword hits.
RECURSIVE RefineSection(_, _)
RefineSection(table, lower_text) ==
    IF table = <<>> THEN "delivery_model"
    ELSE IF Len(MatchedKeywords(Head(table).keywords, lower_text)) >= 2
         THEN Head(table).section
         ELSE RefineSection(Tail(table), lower_text)

\* _resolve_section returning the label itself where the table should be read.
_resolve_section_label(primary_label, text) ==
    IF primary_label # "operational_details"
    THEN primary_label
    ELSE RefineSection(SECTION_REFINEMENT, Lower(text))

_resolve_section(primary_label, text) ==
    IF primary_label # "operational_details"
    THEN IF primary_label \in DOMAIN LABEL_TO_PRIMARY_SECTION
         THEN LABEL_TO_PRIMARY_SECTION[primary_label]
         ELSE "executive_summary"
    ELSE RefineSection(SECTION_REFINEMENT, Lower(text))

\* ------------------------------------------------------------------------
\* The library directory on disk
\* ------------------------------------------------------------------------
\* fs.root is what library_path names: "missing", a regular "file", or a
\* "dir".  fs.entries maps every name directly under the root to
\* [is_dir, files]; files maps each *.pptx name in a theme folder to the state
\* of that slide file:
\*   txt   "absent" | "ok" | "unreadable"  (same-stem .txt; "unreadable" is a
\*         path that exists but whose read_text raises OSError, e.g. a
\*         directory or a file without read permission)
\*   text  the sidecar's content when txt = "ok"
\*   deck  number of slides python-pptx finds, -1 when it cannot open the file
\* Thumbnails and the .json metadata only fill SlideEntry fields that no
\* operation reads back; they are left out of the entry.

MaxSlides == 2

ThemeNames == {"Compliance", "Exec Decks", "Model Service"}

FileNames == {"a.pptx", "b.pptx"}

SlideFile(txt, text, deck) == [txt |-> txt, text |-> text, deck |-> deck]

FileStates ==
    { SlideFile("ok", "SOC 2 compliance certification and PCI audit", 3),
      SlideFile("ok", "Pricing and cost of compliance", 1),
      SlideFile("ok", "Org chart and leadership escalation", -1),
      SlideFile("absent", "", 1) }

\* The smaller library the search interface is exercised on.
SearchThemes == {"Compliance", "Exec Decks"}

SearchFiles == {"a.pptx"}

SearchStates ==
    { SlideFile("ok", "SOC 2 compliance certification and PCI audit", 3),
      SlideFile("ok", "Pricing and cost of compliance", 1),
      SlideFile("ok", "Thank you\n", 1),
      SlideFile("absent", "", 1) }

\* The library of two themes that ranking is exercised on.
RankThemes == {"Compliance", "Exec Decks"}

RankStates ==
    { SlideFile("ok", "Executive Summary: Why Foundever overview", 1),
      SlideFile("ok", "SOC 2 certification and PCI audit", 1),
      SlideFile("absent", "", 1) }

\* Every assignment of slide files to some of the given file names.
FolderContents(names, states) == UNION { [S -> states] : S \in SUBSET names }

\* A stray regular file directly under the library root.
StrayFile == [is_dir |-> FALSE, files |-> <<>>]

\* Number of *.pptx files in the theme folders of a set of root entries.
RECURSIVE SlideFilesIn(_)
SlideFilesIn(entries) ==
    IF DOMAIN entries = {} THEN 0
    ELSE LET t == CHOOSE x \in DOMAIN entries : TRUE
         IN  Cardinality(DOMAIN entries[t].files)
               + SlideFilesIn([x \in DOMAIN entries \ {t} |-> entries[x]])

\* Directory trees holding at most MaxSlides slide files: each entry under
\* the root is a stray file or a theme folder.
TreesOver(themeNames, fileNames, states) ==
    LET folders == { [is_dir |-> TRUE, files |-> f] :
                       f \in FolderContents(fileNames, states) }
    IN  { t \in UNION { [S -> folders \cup {StrayFile}] :
                          S \in SUBSET themeNames } :
            SlideFilesIn(t) <= MaxSlides }

Trees == TreesOver(ThemeNames, FileNames, FileStates)

\* ------------------------------------------------------------------------
\* index()
\* ------------------------------------------------------------------------

EmptyMap == [x \in {} |-> 0]

\* {key: number of entries whose field equals key}
Distribution(entries, field) ==
    [k \in {entries[i][field] : i \in 1..Len(entries)} |->
        Cardinality({i \in 1..Len(entries) : entries[i][field] = k})]

\* _count_slides: len(prs.slides), 1 on any failure
_count_slides(file) == IF file.deck < 0 THEN 1 ELSE file.deck

\* The texts a slide of the model can carry.
OcrTexts == {""} \cup {f.text : f \in FileStates \cup SearchStates \cup RankStates}

\* Lines 225-226: label, confidence, matched keywords and section of a slide.
Resolved(c, ocr_text) ==
    [label      |-> c.label,
     confidence |-> c.confidence,
     matched_kw |-> c.matched_kw,
     section    |-> _resolve_section(c.label, ocr_text)]

ClassifyAndResolve(theme_name, ocr_text) ==
    Resolved(_classify_text(ocr_text, theme_name), ocr_text)

\* The same for every theme name and text of the model, computed once.
Classified ==
    [theme_name \in ThemeNames |->
        [ocr_text \in OcrTexts |-> ClassifyAndResolve(theme_name, ocr_text)]]

Classify(theme_name, ocr_text) ==
    IF theme_name \in ThemeNames /\ ocr_text \in OcrTexts
    THEN Classified[theme_name][ocr_text]
    ELSE ClassifyAndResolve(theme_name, ocr_text)

\* The fields of SlideEntry that the operations read.
SlideEntry(id, theme, file_name, ocr_text, c, deck_slides) ==
    [id               |-> id,
     theme            |-> theme,
     file_name        |-> file_name,
     ocr_text         |-> ocr_text,
     primary_label    |-> c.label,
     backend_section  |-> c.section,
     confidence       |-> c.confidence,
     keywords_matched |-> c.matched_kw,
     slide_count      |-> deck_slides]

\* Lines 208-212: the sidecar text, "" without a sidecar.
OcrText(file) == IF file.txt = "ok" THEN file.text ELSE ""

\* The SlideEntry built for one .pptx file (lines 205-255).
MakeEntry(slide_id, theme_name, file_name, file) ==
    SlideEntry("slide_" \o Pad4(slide_id), theme_name, file_name, OcrText(file),
               Classify(theme_name, OcrText(file)), _count_slides(file))

\* all_keywords after the loop of lines 267-270: the first three matched
\* keywords of every slide of the theme, in the order of the slides.
RECURSIVE all_keywords(_)
all_keywords(theme_slides) ==
    IF theme_slides = <<>> THEN <<>>
    ELSE SliceTo(Head(theme_slides).keywords_matched, 3)
         \o all_keywords(Tail(theme_slides))

\* list(set(all_keywords))[:n], as the set of the keywords kept.  A set of at
\* most n keywords is kept whole.  Of a larger one the first n in the set's
\* iteration order are kept; that order depends on the hash salt of the process
\* and on the insertions that built the set, so set_order[all_keywords] holds
\* what this process keeps of the set built from that list.
ListSetSlice(keywords, n) ==
    IF Cardinality(Range(keywords)) <= n THEN Range(keywords)
    ELSE set_order[keywords]

\* ThemeInfo for a non-empty theme (lines 260-277).
ThemeSummary(theme_name, theme_slides) ==
    [name                 |-> theme_name,
     slide_count          |-> Len(theme_slides),
     label_distribution   |-> Distribution(theme_slides, "primary_label"),
     section_distribution |-> Distribution(theme_slides, "backend_section"),
     sample_keywords      |-> ListSetSlice(all_keywords(theme_slides), 10)]

\* The inner loop over sorted(theme_dir.glob("*.pptx")): st carries slide_id,
\* theme_slides and whether read_text raised.
RECURSIVE ScanFiles(_, _, _, _)
ScanFiles(names, files, theme_name, st) ==
    IF names = <<>> \/ st.raised THEN st
    ELSE LET file == files[Head(names)]
             id   == st.slide_id + 1
         IN  IF file.txt = "unreadable"
             THEN [st EXCEPT !.slide_id = id, !.raised = TRUE]
             ELSE ScanFiles(Tail(names), files, theme_name,
                     [st EXCEPT !.slide_id = id,
                                !.theme_slides =
                                    Append(@, MakeEntry(id, theme_name, Head(names), file))])

\* The all_keywords lists of the theme folders of directory d.
ThemeKeywordLists(d) ==
    { all_keywords(ScanFiles(SortedNames(DOMAIN d.entries[n].files),
                             d.entries[n].files, n,
                             [slide_id |-> 0, theme_slides |-> <<>>,
                              raised |-> FALSE]).theme_slides) :
        n \in {e \in DOMAIN d.entries : d.entries[e].is_dir} }

\* What a process may keep of the keyword sets of directory d: for every list
\* of more than ten distinct keywords, any ten of them.  The interpreter fixes
\* the outcome for a list when it starts (str hashes are salted per process),
\* so it is chosen once and no operation changes it; two lists are independent
\* of each other, also when they share keywords.
SetOrders(d) ==
    LET big     == {k \in ThemeKeywordLists(d) : Cardinality(Range(k)) > 10}
        Kept(k) == {S \in SUBSET Range(k) : Cardinality(S) = 10}
    IN  {f \in [big -> UNION {Kept(k) : k \in big}] :
            \A k \in big : f[k] \in Kept(k)}

\* ScanStart without the reset of self.slides and self.themes.
ScanStart_keep(m) ==
    [slides |-> m.slides, themes |-> m.themes, slide_id |-> 0, raised |-> FALSE]

\* The state index() starts its scan from: lines 190-192.
ScanStart(m) == [slides |-> <<>>, themes |-> EmptyMap, slide_id |-> 0, raised |-> FALSE]

\* AddTheme counting len(self.slides) where len(theme_slides) is meant.
AddTheme_cumulative(m, theme_name, theme_slides) ==
    [m EXCEPT !.slides = @ \o theme_slides,
              !.themes = IF theme_slides # <<>>
                         THEN [n \in DOMAIN @ \cup {theme_name} |->
                                 IF n = theme_name
                                 THEN ThemeSummary(theme_name, m.slides \o theme_slides)
                                 ELSE @[n]]
                         ELSE @]

\* What one theme folder adds to the manager: lines 257-277.
AddTheme(m, theme_name, theme_slides) ==
    [m EXCEPT !.slides = @ \o theme_slides,
              !.themes = IF theme_slides # <<>>
                         THEN [n \in DOMAIN @ \cup {theme_name} |->
                                 IF n = theme_name
                                 THEN ThemeSummary(theme_name, theme_slides)
                                 ELSE @[n]]
                         ELSE @]

\* The manager after one theme folder whose files ended the scan in state r:
\* the exception of read_text leaves the loop before line 257.
AfterTheme(m, theme_name, r) ==
    IF r.raised
    THEN [m EXCEPT !.slide_id = r.slide_id, !.raised = TRUE]
    ELSE AddTheme([m EXCEPT !.slide_id = r.slide_id], theme_name, r.theme_slides)

\* The outer loop over sorted(library_path.iterdir()).
RECURSIVE ScanThemes(_, _, _)
ScanThemes(names, entries, m) ==
    IF names = <<>> \/ m.raised THEN m
    ELSE IF ~entries[Head(names)].is_dir
         THEN ScanThemes(Tail(names), entries, m)
         ELSE ScanThemes(Tail(names), entries,
                  AfterTheme(m, Head(names),
                      ScanFiles(SortedNames(DOMAIN entries[Head(names)].files),
                                entries[Head(names)].files, Head(names),
                                [slide_id |-> m.slide_id, theme_slides |-> <<>>,
                                 raised |-> FALSE])))

_global_label_distribution(sl) == Distribution(sl, "primary_label")

_global_section_distribution(sl) == Distribution(sl, "backend_section")

\* The dict index() returns (lines 285-291).
IndexSummary(sl, th) ==
    [total_slides         |-> Len(sl),
     total_themes         |-> Cardinality(DOMAIN th),
     themes               |-> [n \in DOMAIN th |-> th[n].slide_count],
     label_distribution   |-> _global_label_distribution(sl),
     section_distribution |-> _global_section_distribution(sl)]

\* What index() leaves and returns when it ends with the given outcome ("ok"
\* or the exception raised) after the scan reached state r.
IndexResult(m, r, outcome) ==
    [slides   |-> r.slides,
     themes   |-> r.themes,
     _indexed |-> IF outcome = "ok" THEN TRUE ELSE m._indexed,
     outcome  |-> outcome,
     result   |-> IF outcome = "ok" THEN IndexSummary(r.slides, r.themes) ELSE <<>>]

\* Lines 194-291 for a scan that ended in state r.
IndexScanned(m, r) == IndexResult(m, r, IF r.raised THEN "OSError" ELSE "ok")

\* index() run on manager state m = [slides, themes, _indexed] against the
\* directory d: the manager state it leaves, how the call ended and what it
\* returned.  A missing root raises before anything is assigned; a root that
\* is a regular file makes iterdir() raise after the reset of lines 190-191.
index(m, d) ==
    IF d.root = "missing"
    THEN [slides |-> m.slides, themes |-> m.themes, _indexed |-> m._indexed,
          outcome |-> "FileNotFoundError", result |-> <<>>]
    ELSE IF d.root = "file"
         THEN IndexResult(m, ScanStart(m), "NotADirectoryError")
         ELSE IndexScanned(m, ScanThemes(SortedNames(DOMAIN d.entries), d.entries,
                                         ScanStart(m)))

Manager == [slides |-> slides, themes |-> themes, _indexed |-> _indexed]

\* _ensure_indexed that never calls index().
_ensure_indexed_never(m, d) ==
    [slides |-> m.slides, themes |-> m.themes, _indexed |-> m._indexed,
     outcome |-> "ok", result |-> <<>>]

\* _ensure_indexed: index() unless a previous index() completed.
_ensure_indexed(m, d) ==
    IF ~m._indexed
    THEN index(m, d)
    ELSE [slides |-> m.slides, themes |-> m.themes, _indexed |-> m._indexed,
          outcome |-> "ok", result |-> <<>>]

\* get_library_stats() once the index is there (lines 455-469).
LibraryStats(sl, th) ==
    [total_slides |-> Len(sl),
     total_themes |-> Cardinality(DOMAIN th),
     themes       |-> [n \in DOMAIN th |->
                         [slides   |-> th[n].slide_count,
                          labels   |-> th[n].label_distribution,
                          sections |-> th[n].section_distribution]],
     global_label_distribution   |-> _global_label_distribution(sl),
     global_section_distribution |-> _global_section_distribution(sl)]

\* ------------------------------------------------------------------------
\* Search and retrieval
\* ------------------------------------------------------------------------

\* Optional[str]: None is <<>>, a string x is <<x>>.
None == <<>>

Some(x) == <<x>>

\* `if f` for an Optional[str]: neither None nor the empty string
Truthy(f) == f # None /\ f[1] # ""

\* TermsOf without the `if len(t.strip()) >= 2` filter.
TermsOf_any(tokens) == [i \in 1..Len(tokens) |-> Lower(Strip(tokens[i]))]

\* [t.strip().lower() for t in query.lower().split() if len(t.strip()) >= 2]
RECURSIVE TermsOf(_)
TermsOf(tokens) ==
    IF tokens = <<>> THEN <<>>
    ELSE (IF Len(Strip(Head(tokens))) >= 2
          THEN <<Lower(Strip(Head(tokens)))>> ELSE <<>>) \o TermsOf(Tail(tokens))

QueryTerms(query) == TermsOf(Split(Lower(query)))

\* SearchText without the OCR text.
SearchText_no_ocr(slide) == Lower(slide.theme \o " " \o slide.file_name)

\* f"{slide.theme} {slide.ocr_text} {slide.file_name}".lower()
SearchText(slide) ==
    Lower(slide.theme \o " " \o slide.ocr_text \o " " \o slide.file_name)

\* [t for t in query_terms if t in s]
RECURSIVE MatchedTerms(_, _)
MatchedTerms(terms, s) ==
    IF terms = <<>> THEN <<>>
    ELSE (IF Contains(s, Head(terms)) THEN <<Head(terms)>> ELSE <<>>)
         \o MatchedTerms(Tail(terms), s)

\* ", ".join(terms)
RECURSIVE Join(_)
Join(terms) ==
    IF terms = <<>> THEN ""
    ELSE IF Len(terms) = 1 THEN Head(terms)
    ELSE Head(terms) \o ", " \o Join(Tail(terms))

\* ThemeBoosted without the boost.
ThemeBoosted_never(score, theme_hit) == score

\* Lines 403-406: the boost for a query term in the theme name
ThemeBoosted(score, theme_hit) ==
    IF theme_hit THEN FloatMul(score, FloatOfRatio(13, 10)) ELSE score

\* Lines 401-413: the rounded score, in thousandths, of a slide of the given
\* confidence (in thousandths) that matched n_matched of n_terms query terms.
SearchScore(n_matched, n_terms, theme_hit, confidence) ==
    FloatRound3(
        FloatMul(ThemeBoosted(IF n_terms > 0 THEN FloatOfRatio(n_matched, n_terms)
                              ELSE FloatOfRatio(0, 1),
                              theme_hit),
                 FloatAdd(FloatHalf, FloatMul(FloatOfRatio(confidence, 1000), FloatHalf))))

\* The arguments the calls of the model are made with.
MaxLimit == 2

\* The queries: one without a token, one whose tokens are all shorter than two
\* characters, one of one term, one of two terms in mixed case.
Queries == {"", "a x", "pptx", "Compliance\tAUDIT\n"}

ThemeFilters == {None, Some("Compliance")}

LabelFilters == {None, Some("compliance_security")}

SectionFilters == {None, Some("governance_compliance")}

SectionArgs == {"governance_compliance", "executive_summary", "client_understanding"}

LabelArgs == {"compliance_security", "unclassified"}

ThemeArgs == {"compliance", "EXEC DECKS"}

SectionLists ==
    { None, Some(<<>>), Some(<<"client_understanding", "governance_compliance">>) }

\* SearchScore for the term counts and confidences that occur in the model,
\* computed once.
ModelConfidences ==
    {Classified[t][x].confidence : t \in ThemeNames, x \in OcrTexts}

RankQueries == {"audit", "foundever", "pptx pptx deck"}

MaxTerms ==
    LET n == {Len(QueryTerms(q)) : q \in Queries \cup RankQueries}
    IN  CHOOSE k \in n : \A j \in n : j <= k

Scores ==
    [n_terms \in 1..MaxTerms |->
        [n_matched \in 1..n_terms |->
            [theme_hit \in BOOLEAN |->
                [confidence \in ModelConfidences |->
                    SearchScore(n_matched, n_terms, theme_hit, confidence)]]]]

Score(n_matched, n_terms, theme_hit, confidence) ==
    IF n_terms \in 1..MaxTerms /\ n_matched \in 1..n_terms
       /\ confidence \in ModelConfidences
    THEN Scores[n_terms][n_matched][theme_hit][confidence]
    ELSE SearchScore(n_matched, n_terms, theme_hit, confidence)

\* PassesFilters that lets a slide through when any one given filter matches.
PassesFilters_any(slide, theme_filter, label_filter, section_filter) ==
    \/ ~Truthy(theme_filter) /\ ~Truthy(label_filter) /\ ~Truthy(section_filter)
    \/ Truthy(theme_filter) /\ Lower(slide.theme) = Lower(theme_filter[1])
    \/ Truthy(label_filter) /\ slide.primary_label = label_filter[1]
    \/ Truthy(section_filter) /\ slide.backend_section = section_filter[1]

\* Whether the filters let the slide through (lines 387-392).
PassesFilters(slide, theme_filter, label_filter, section_filter) ==
    /\ ~(Truthy(theme_filter) /\ Lower(slide.theme) # Lower(theme_filter[1]))
    /\ ~(Truthy(label_filter) /\ slide.primary_label # label_filter[1])
    /\ ~(Truthy(section_filter) /\ slide.backend_section # section_filter[1])

\* Lines 386-415 for one slide: the result appended for it, if any.
ScoreSlide(slide, terms, matched, passes) ==
    IF ~passes \/ matched = <<>>
    THEN <<>>
    ELSE << [slide        |-> slide,
             score        |-> Score(Len(matched), Len(terms),
                                    \E i \in 1..Len(terms) :
                                        Contains(Lower(slide.theme), terms[i]),
                                    slide.confidence),
             match_reason |-> "Matched: " \o Join(matched)] >>

\* The loop of search(): the results in index order, before sorting.
RECURSIVE Scored(_, _, _, _, _)
Scored(sl, terms, theme_filter, label_filter, section_filter) ==
    IF sl = <<>> THEN <<>>
    ELSE ScoreSlide(Head(sl), terms, MatchedTerms(terms, SearchText(Head(sl))),
                    PassesFilters(Head(sl), theme_filter, label_filter, section_filter))
         \o Scored(Tail(sl), terms, theme_filter, label_filter, section_filter)

\* InsertDesc that puts an element before those of equal key.
RECURSIVE InsertDesc_unstable(_, _, _)
InsertDesc_unstable(sorted, x, field) ==
    IF sorted = <<>> THEN <<x>>
    ELSE IF Head(sorted)[field] > x[field]
         THEN <<Head(sorted)>> \o InsertDesc_unstable(Tail(sorted), x, field)
         ELSE <<x>> \o sorted

\* list.sort(key=..., reverse=True): descending by the given field, elements
\* of equal key keep their order.
RECURSIVE InsertDesc(_, _, _)
InsertDesc(sorted, x, field) ==
    IF sorted = <<>> THEN <<x>>
    ELSE IF Head(sorted)[field] >= x[field]
         THEN <<Head(sorted)>> \o InsertDesc(Tail(sorted), x, field)
         ELSE <<x>> \o sorted

RECURSIVE SortDesc(_, _)
SortDesc(q, field) ==
    IF q = <<>> THEN <<>>
    ELSE InsertDesc(SortDesc(SubSeq(q, 1, Len(q) - 1), field), q[Len(q)], field)

\* search() once the index is there (lines 381-418).
search(sl, query, limit, theme_filter, label_filter, section_filter) ==
    SliceTo(SortDesc(Scored(sl, QueryTerms(query), theme_filter, label_filter,
                            section_filter), "score"),
            limit)

\* get_slides_for_section without the sort of line 428.
get_slides_for_section_unsorted(sl, section, limit) ==
    SliceTo(SelectSeq(sl, LAMBDA s : s.backend_section = section), limit)

\* get_slides_for_section() once the index is there (lines 427-429).
get_slides_for_section(sl, section, limit) ==
    SliceTo(SortDesc(SelectSeq(sl, LAMBDA s : s.backend_section = section),
                     "confidence"), limit)

\* get_slides_for_label() once the index is there (lines 438-440).
get_slides_for_label(sl, label, limit) ==
    SliceTo(SortDesc(SelectSeq(sl, LAMBDA s : s.primary_label = label),
                     "confidence"), limit)

\* get_theme_slides() once the index is there (line 445): the theme is
\* compared without regard to case, in index order, without a limit.
get_theme_slides(sl, theme) ==
    SelectSeq(sl, LAMBDA s : Lower(s.theme) = Lower(theme))

\* self.themes.values(): index() fills the dict from empty in the order of
\* sorted(iterdir()), so its values come in the order of the theme names.
ThemeValues(th, names) == [i \in 1..Len(names) |-> th[names[i]]]

\* list_themes() once the index is there (line 450).
list_themes(th) == SortDesc(ThemeValues(th, SortedNames(DOMAIN th)), "slide_count")

\* SelectInto without the `if candidates` guard.
RECURSIVE SelectInto_always(_, _, _, _)
SelectInto_always(result, sl, targets, max_per_section) ==
    IF targets = <<>> THEN result
    ELSE LET section    == Head(targets)
             candidates == get_slides_for_section(sl, section, max_per_section)
         IN  SelectInto_always([k \in DOMAIN result \cup {section} |->
                                  IF k = section THEN candidates ELSE result[k]],
                               sl, Tail(targets), max_per_section)

\* The loop of select_slides_for_proposal (lines 485-491): the dict after the
\* given target sections, as a function from its keys.
RECURSIVE SelectInto(_, _, _, _)
SelectInto(result, sl, targets, max_per_section) ==
    IF targets = <<>> THEN result
    ELSE LET section    == Head(targets)
             candidates == get_slides_for_section(sl, section, max_per_section)
         IN  SelectInto(IF candidates # <<>>
                        THEN [k \in DOMAIN result \cup {section} |->
                                IF k = section THEN candidates ELSE result[k]]
                        ELSE result,
                        sl, Tail(targets), max_per_section)

\* select_slides_for_proposal() once the index is there; sections is None
\* (<<>>) or <<list of section names>>.
select_slides_for_proposal(sl, sections, max_per_section) ==
    LET target_sections == IF sections # <<>> /\ sections[1] # <<>>
                           THEN sections[1] ELSE BACKEND_SECTIONS
    IN  SelectInto(EmptyMap, sl, target_sections, max_per_section)

\* ------------------------------------------------------------------------
\* State machine
\* ------------------------------------------------------------------------

\* What a call leaves in `last`: the operation, its arguments, whether the
\* manager was indexed when the call was made, how the call ended ("ok" or the
\* exception raised) and what it returned.
Call(op, args, r, result) ==
    [op |-> op, args |-> args, indexed_before |-> _indexed, outcome |-> r.outcome,
     result |-> IF r.outcome = "ok" THEN result ELSE <<>>]

\* No call is running.  scan holds, for each of two threads that call the
\* manager, the position of its call between the statements that read or
\* assign the manager: pc, the locals of a running index() (the theme folders
\* still to visit, the slide_id counter, the theme_slides of the folder whose
\* ThemeInfo is not yet recorded), the items of the returned dict read so far,
\* and watch, the state of the themes dict it is iterating ("live": still the
\* manager's, "stale": replaced by index(), "changed": it grew).
\* scan.serialized tells whether the callers let one call run at a time.
NoStats ==
    [total_slides |-> 0, total_themes |-> 0, themes |-> EmptyMap, labels |-> EmptyMap]

IdleThread ==
    [pc |-> "idle", indexed_before |-> FALSE, todo |-> <<>>, slide_id |-> 0,
     theme_slides |-> <<>>, got |-> NoStats, watch |-> "none"]

\* scan.calls counts the calls made so far.
NoScan ==
    [serialized |-> TRUE, calls |-> 0, indexer |-> IdleThread, reader |-> IdleThread]

NoCall ==
    [op |-> "__init__", args |-> <<>>, indexed_before |-> FALSE, outcome |-> "ok",
     result |-> <<>>]

Fresh == /\ slides = <<>>
         /\ themes = EmptyMap
         /\ _indexed = FALSE
         /\ last = NoCall
         /\ scan = NoScan
         /\ prs = <<>>
         /\ slide_count = 0
         /\ sections_added = <<>>
         /\ saved = {}
         /\ _library_manager = None
         /\ set_order \in SetOrders(fs)

Init == /\ fs \in [root : {"dir"}, entries : Trees]
        /\ Fresh

\* What the operation returns from the manager state r that index() or
\* _ensure_indexed() left.
Answer(op, args, r) ==
    CASE op = "index" -> r.result
      [] op = "get_library_stats" -> LibraryStats(r.slides, r.themes)
      [] op = "search" ->
            search(r.slides, args.query, args.limit, args.theme_filter,
                   args.label_filter, args.section_filter)
      [] op = "get_slides_for_section" ->
            get_slides_for_section(r.slides, args.section, args.limit)
      [] op = "get_slides_for_label" ->
            get_slides_for_label(r.slides, args.label, args.limit)
      [] op = "select_slides_for_proposal" ->
            select_slides_for_proposal(r.slides, args.sections, args.max_per_section)
      [] op = "get_theme_slides" -> get_theme_slides(r.slides, args.theme)
      [] op = "list_themes" -> list_themes(r.themes)

\* A call of a public method: the manager state it leaves and, in `last`, what
\* it returned or raised.
Respond(op, args, r) ==
    /\ slides' = r.slides
    /\ themes' = r.themes
    /\ _indexed' = r._indexed
    /\ last' = Call(op, args, r, Answer(op, args, r))

Index ==
    /\ Respond("index", <<>>, index(Manager, fs))
    /\ UNCHANGED <<fs, scan, builderVars, toolVars, set_order>>

GetLibraryStats ==
    /\ Respond("get_library_stats", <<>>, _ensure_indexed(Manager, fs))
    /\ UNCHANGED <<fs, scan, builderVars, toolVars, set_order>>

Search ==
    \E query \in Queries, limit \in 1..MaxLimit, theme_filter \in ThemeFilters,
       label_filter \in LabelFilters, section_filter \in SectionFilters :
        /\ Respond("search",
                   [query |-> query, limit |-> limit, theme_filter |-> theme_filter,
                    label_filter |-> label_filter, section_filter |-> section_filter],
                   _ensure_indexed(Manager, fs))
        /\ UNCHANGED <<fs, scan, builderVars, toolVars, set_order>>

GetSlidesForSection ==
    \E section \in SectionArgs, limit \in 1..MaxLimit :
        /\ Respond("get_slides_for_section", [section |-> section, limit |-> limit],
                   _ensure_indexed(Manager, fs))
        /\ UNCHANGED <<fs, scan, builderVars, toolVars, set_order>>

GetSlidesForLabel ==
    \E label \in LabelArgs, limit \in 1..MaxLimit :
        /\ Respond("get_slides_for_label", [label |-> label, limit |-> limit],
                   _ensure_indexed(Manager, fs))
        /\ UNCHANGED <<fs, scan, builderVars, toolVars, set_order>>

SelectSlidesForProposal ==
    \E sections \in SectionLists, max_per_section \in -1..MaxLimit :
        /\ Respond("select_slides_for_proposal",
                   [sections |-> sections, max_per_section |-> max_per_section],
                   _ensure_indexed(Manager, fs))
        /\ UNCHANGED <<fs, scan, builderVars, toolVars, set_order>>

GetThemeSlides ==
    \E theme \in ThemeArgs :
        /\ Respond("get_theme_slides", [theme |-> theme], _ensure_indexed(Manager, fs))
        /\ UNCHANGED <<fs, scan, builderVars, toolVars, set_order>>

ListThemes ==
    /\ Respond("list_themes", <<>>, _ensure_indexed(Manager, fs))
    /\ UNCHANGED <<fs, scan, builderVars, toolVars, set_order>>

\* The environment: the library directory is deleted, is replaced by a regular
\* file, or the text sidecar of one slide becomes unreadable.  The disk states
\* before the first index() are those of Init, so the model lets the disk
\* change only under a manager that has indexed it.
LibraryDeleted ==
    /\ _indexed /\ fs.root = "dir"
    /\ fs' = [fs EXCEPT !.root = "missing"]
    /\ UNCHANGED <<slides, themes, _indexed, last, scan, builderVars, toolVars, set_order>>

LibraryReplacedByFile ==
    /\ _indexed /\ fs.root = "dir"
    /\ fs' = [fs EXCEPT !.root = "file"]
    /\ UNCHANGED <<slides, themes, _indexed, last, scan, builderVars, toolVars, set_order>>

SidecarUnreadable ==
    /\ _indexed /\ fs.root = "dir"
    /\ \E t \in DOMAIN fs.entries :
         /\ fs.entries[t].is_dir
         /\ \E f \in DOMAIN fs.entries[t].files :
              /\ fs.entries[t].files[f].txt = "ok"
              /\ fs' = [fs EXCEPT !.entries[t].files[f].txt = "unreadable"]
    /\ UNCHANGED <<slides, themes, _indexed, last, scan, builderVars, toolVars, set_order>>

Next ==
    \/ Index
    \/ GetLibraryStats
    \/ LibraryDeleted
    \/ LibraryReplacedByFile
    \/ SidecarUnreadable

Spec == Init /\ [][Next]_vars

\* The search interface on a small library: every read operation, over the
\* trees of two themes with one slide file each.
InitSearch ==
    /\ fs \in [root : {"dir", "missing"},
               entries : TreesOver(SearchThemes, SearchFiles, SearchStates)]
    /\ Fresh

NextSearch ==
    \/ Index
    \/ Search
    \/ GetSlidesForSection
    \/ GetSlidesForLabel
    \/ GetLibraryStats
    \/ SelectSlidesForProposal
    \/ GetThemeSlides
    \/ ListThemes

SpecSearch == InitSearch /\ [][NextSearch]_vars

\* Ranking: index() and unfiltered search() with limits from 0, over the
\* libraries of two themes.
InitRank ==
    /\ fs \in [root : {"dir"}, entries : TreesOver(RankThemes, FileNames, RankStates)]
    /\ Fresh

SearchRanked ==
    \E query \in RankQueries, limit \in 0..MaxLimit :
        /\ Respond("search",
                   [query |-> query, limit |-> limit, theme_filter |-> None,
                    label_filter |-> None, section_filter |-> None],
                   _ensure_indexed(Manager, fs))
        /\ UNCHANGED <<fs, scan, builderVars, toolVars, set_order>>

NextRank ==
    \/ Index
    \/ SearchRanked

SpecRank == InitRank /\ [][NextRank]_vars

\* index() and get_library_stats() called on the same manager by two
\* threads.  A step of a thread is one statement of index() or the evaluation
\* of one item of the dict a call returns; slides, themes and _indexed are
\* read and assigned as the statements reach them.  The thread "indexer" calls
\* index(), the thread "reader" calls get_library_stats(), which runs index()
\* itself when it finds the manager not indexed.
Threads == {"indexer", "reader"}

\* The number of calls the two threads make together.
MaxCalls == 3

Other(t) == IF t = "indexer" THEN "reader" ELSE "indexer"

OpOf(t) == IF t = "indexer" THEN "index" ELSE "get_library_stats"

\* self.slides.extend(theme_slides) that assigns the list instead.
ExtendSlides_replace(sl, theme_slides) == theme_slides

\* Line 257.
ExtendSlides(sl, theme_slides) == sl \o theme_slides

\* The call of thread t ends: it returns result or raises.
Finish(t, outcome, result) ==
    /\ last' = [op |-> OpOf(t), args |-> <<>>,
                indexed_before |-> scan[t].indexed_before, outcome |-> outcome,
                result |-> result]
    /\ scan' = [scan EXCEPT ![t] = IdleThread]

\* A thread enters its call; callers that serialize let it in when the other
\* thread is in no call.  Line 494 for the reader.
Enter ==
    \E t \in Threads :
        /\ scan[t].pc = "idle"
        /\ scan.serialized => scan[Other(t)].pc = "idle"
        /\ scan.calls < MaxCalls
        /\ scan' = [scan EXCEPT !.calls = @ + 1,
                                ![t].indexed_before = _indexed,
                                ![t].pc = IF t = "reader" /\ _indexed
                                          THEN "len_slides" ELSE "index"]
        /\ UNCHANGED <<fs, slides, themes, _indexed, last, builderVars, toolVars, set_order>>

\* Lines 187-190.
IndexBegin ==
    \E t \in Threads :
        /\ scan[t].pc = "index"
        /\ IF fs.root = "missing"
           THEN /\ Finish(t, "FileNotFoundError", <<>>)
                /\ UNCHANGED slides
           ELSE /\ slides' = ScanStart(Manager).slides
                /\ scan' = [scan EXCEPT ![t].pc = "reset"]
                /\ UNCHANGED last
        /\ UNCHANGED <<fs, themes, _indexed, builderVars, toolVars, set_order>>

\* Lines 191-194.  A dict the other thread is iterating stays as it was: the
\* manager gets a new one.
IndexReset ==
    \E t \in Threads :
        /\ scan[t].pc = "reset"
        /\ themes' = ScanStart(Manager).themes
        /\ IF fs.root = "file"
           THEN Finish(t, "NotADirectoryError", <<>>)
           ELSE /\ scan' = [scan EXCEPT
                              ![t].pc = "theme",
                              ![t].todo = SortedNames(DOMAIN fs.entries),
                              ![t].slide_id = 0,
                              ![t].theme_slides = <<>>,
                              ![Other(t)].watch = IF @ = "live" THEN "stale" ELSE @]
                /\ UNCHANGED last
        /\ UNCHANGED <<fs, slides, _indexed, builderVars, toolVars, set_order>>

\* The scan state after the files of the next theme folder.
ThemeScanned(todo, slide_id) ==
    ScanFiles(SortedNames(DOMAIN fs.entries[Head(todo)].files),
              fs.entries[Head(todo)].files, Head(todo),
              [slide_id |-> slide_id, theme_slides |-> <<>>, raised |-> FALSE])

\* Lines 194-257 for one entry under the root, given the scan r of its files.
ThemeExtended(t, r) ==
    IF r.raised
    THEN /\ Finish(t, "OSError", <<>>)
         /\ UNCHANGED slides
    ELSE /\ slides' = ExtendSlides(slides, r.theme_slides)
         /\ scan' = [scan EXCEPT ![t].pc = "record", ![t].slide_id = r.slide_id,
                                 ![t].theme_slides = r.theme_slides]
         /\ UNCHANGED last

IndexExtend ==
    \E t \in Threads :
        /\ scan[t].pc = "theme" /\ scan[t].todo # <<>>
        /\ IF ~fs.entries[Head(scan[t].todo)].is_dir
           THEN /\ scan' = [scan EXCEPT ![t].todo = Tail(@)]
                /\ UNCHANGED <<slides, last>>
           ELSE ThemeExtended(t, ThemeScanned(scan[t].todo, scan[t].slide_id))
        /\ UNCHANGED <<fs, themes, _indexed, builderVars, toolVars, set_order>>

\* The themes dict after lines 260-277 of one thread.
Recorded(t) == AddTheme(Manager, Head(scan[t].todo), scan[t].theme_slides).themes

\* Lines 260-277.  A new key changes the size of the dict, which the other
\* thread notices when it is iterating this dict.
IndexRecord ==
    \E t \in Threads :
        /\ scan[t].pc = "record"
        /\ themes' = Recorded(t)
        /\ scan' = [scan EXCEPT
                      ![t].pc = "theme", ![t].todo = Tail(@),
                      ![t].theme_slides = <<>>,
                      ![Other(t)].watch =
                          IF @ = "live" /\ DOMAIN Recorded(t) # DOMAIN themes
                          THEN "changed" ELSE @]
        /\ UNCHANGED <<fs, slides, _indexed, last, builderVars, toolVars, set_order>>

\* Line 279; the dict of lines 285-291 or 455-469 comes next.
IndexEnd ==
    \E t \in Threads :
        /\ scan[t].pc = "theme" /\ scan[t].todo = <<>>
        /\ _indexed' = TRUE
        /\ scan' = [scan EXCEPT ![t].pc = "len_slides", ![t].slide_id = 0]
        /\ UNCHANGED <<fs, slides, themes, last, builderVars, toolVars, set_order>>

\* len(self.slides): line 286 or 458.
ReadLenSlides ==
    \E t \in Threads :
        /\ scan[t].pc = "len_slides"
        /\ scan' = [scan EXCEPT ![t].pc = "len_themes",
                                ![t].got.total_slides = Len(slides)]
        /\ UNCHANGED <<fs, slides, themes, _indexed, last, builderVars, toolVars, set_order>>

\* len(self.themes): line 287 or 459.
ReadLenThemes ==
    \E t \in Threads :
        /\ scan[t].pc = "len_themes"
        /\ scan' = [scan EXCEPT ![t].pc = "themes",
                                ![t].got.total_themes = Cardinality(DOMAIN themes)]
        /\ UNCHANGED <<fs, slides, themes, _indexed, last, builderVars, toolVars, set_order>>

\* self.themes.items() of line 288 or 466: the iteration starts on the dict
\* the manager holds now.
ReadThemesBegin ==
    \E t \in Threads :
        /\ scan[t].pc = "themes"
        /\ scan' = [scan EXCEPT ![t].pc = "themes_iter", ![t].got.themes = themes,
                                ![t].watch = "live"]
        /\ UNCHANGED <<fs, slides, themes, _indexed, last, builderVars, toolVars, set_order>>

\* The comprehension of line 288 or lines 460-467 ends: with every item of
\* the dict, or with the RuntimeError of a dict that changed size during the
\* iteration.
ReadThemesEnd ==
    \E t \in Threads :
        /\ scan[t].pc = "themes_iter"
        /\ IF scan[t].watch = "changed"
           THEN Finish(t, "RuntimeError", <<>>)
           ELSE /\ scan' = [scan EXCEPT ![t].pc = "labels", ![t].watch = "none"]
                /\ UNCHANGED last
        /\ UNCHANGED <<fs, slides, themes, _indexed, builderVars, toolVars, set_order>>

\* self._global_label_distribution(): line 289 or 467.
ReadLabels ==
    \E t \in Threads :
        /\ scan[t].pc = "labels"
        /\ scan' = [scan EXCEPT ![t].pc = "sections",
                                ![t].got.labels = _global_label_distribution(slides)]
        /\ UNCHANGED <<fs, slides, themes, _indexed, last, builderVars, toolVars, set_order>>

\* The dict index() returns (lines 285-291) from the items read.
IndexSummaryOf(got, sections) ==
    [total_slides         |-> got.total_slides,
     total_themes         |-> got.total_themes,
     themes               |-> [n \in DOMAIN got.themes |-> got.themes[n].slide_count],
     label_distribution   |-> got.labels,
     section_distribution |-> sections]

\* The dict get_library_stats() returns (lines 455-469) from the items read.
LibraryStatsOf(got, sections) ==
    [total_slides |-> got.total_slides,
     total_themes |-> got.total_themes,
     themes       |-> [n \in DOMAIN got.themes |->
                         [slides   |-> got.themes[n].slide_count,
                          labels   |-> got.themes[n].label_distribution,
                          sections |-> got.themes[n].section_distribution]],
     global_label_distribution   |-> got.labels,
     global_section_distribution |-> sections]

\* self._global_section_distribution() (line 290 or 468) and the return.
ReadStats ==
    \E t \in Threads :
        /\ scan[t].pc = "sections"
        /\ Finish(t, "ok",
                  IF t = "indexer"
                  THEN IndexSummaryOf(scan[t].got, _global_section_distribution(slides))
                  ELSE LibraryStatsOf(scan[t].got, _global_section_distribution(slides)))
        /\ UNCHANGED <<fs, slides, themes, _indexed, builderVars, toolVars, set_order>>

\* The libraries the two threads run on: each theme folder holds at most one
\* slide file.
ConcurrentFiles == {"a.pptx"}

ConcurrentStates == { SlideFile("ok", "SOC 2 certification and PCI audit", 1) }

InitConcurrent ==
    /\ fs \in [root : {"dir"},
               entries : TreesOver(RankThemes, ConcurrentFiles, ConcurrentStates)]
    /\ slides = <<>>
    /\ themes = EmptyMap
    /\ _indexed = FALSE
    /\ last = NoCall
    /\ scan \in {[NoScan EXCEPT !.serialized = s] : s \in BOOLEAN}
    /\ prs = <<>>
    /\ slide_count = 0
    /\ sections_added = <<>>
    /\ saved = {}
    /\ _library_manager = None
    /\ set_order \in SetOrders(fs)

NextConcurrent ==
    \/ Enter
    \/ IndexBegin
    \/ IndexReset
    \/ IndexExtend
    \/ IndexRecord
    \/ IndexEnd
    \/ ReadLenSlides
    \/ ReadLenThemes
    \/ ReadThemesBegin
    \/ ReadThemesEnd
    \/ ReadLabels
    \/ ReadStats

SpecConcurrent == InitConcurrent /\ [][NextConcurrent]_vars

\* ------------------------------------------------------------------------
\* _classify_text and _resolve_section called on their own
\* ------------------------------------------------------------------------
\* The two methods read nothing of the manager; the calls are recorded in
\* `last` and leave every variable as it is.

ClassifyThemes == {"Compliance", "Exec Decks", "Pricing"}

\* Texts with no keyword, with keywords of one label, of two labels with the
\* same score, with more than two thirds of the keywords of a label, and with
\* keywords of none, one or several rows of the refinement table.
ClassifyTexts ==
    { "", " " \o ControlChars, "Thank you\n",
      "Overview of pricing",
      "pricing cost rate commercial fee",
      "Org chart and leadership escalation",
      "Platform software and staffing shift roster",
      "Process workflow SOP",
      "Training site",
      "Staffing headcount",
      "SOC 2 certification and PCI audit" }

\* The labels _resolve_section is called with: the taxonomy, and a label that
\* is not in LABEL_TO_PRIMARY_SECTION.
ResolveLabels == Range(PRIMARY_LABELS) \cup {"appendix"}

ClassifyText ==
    \E text \in ClassifyTexts, theme_name \in ClassifyThemes :
        /\ last' = [op |-> "_classify_text",
                    args |-> [text |-> text, theme_name |-> theme_name],
                    indexed_before |-> _indexed, outcome |-> "ok",
                    result |-> _classify_text(text, theme_name)]
        /\ UNCHANGED <<scan, libraryVars, builderVars, toolVars, set_order>>

ResolveSection ==
    \E primary_label \in ResolveLabels, text \in ClassifyTexts :
        /\ last' = [op |-> "_resolve_section",
                    args |-> [primary_label |-> primary_label, text |-> text],
                    indexed_before |-> _indexed, outcome |-> "ok",
                    result |-> [section |-> _resolve_section(primary_label, text)]]
        /\ UNCHANGED <<scan, libraryVars, builderVars, toolVars, set_order>>

InitClassify ==
    /\ fs = [root |-> "missing", entries |-> EmptyMap]
    /\ Fresh

NextClassify ==
    \/ ClassifyText
    \/ ResolveSection

SpecClassify == InitClassify /\ [][NextClassify]_vars

\* ------------------------------------------------------------------------
\* The slide library tools (src/src/pptx_tools.py)
\* ------------------------------------------------------------------------
\* _library_manager is the module-level singleton of slide_library.py: None,
\* or <<library_path>> of the manager whose fields are slides, themes and
\* _indexed.  The directory of LibraryPaths[1] is fs; nothing is at the other
\* path.

LibraryPaths == <<"/data/slides", "/data/gone">>

DiskAt(library_path) ==
    IF library_path = LibraryPaths[1] THEN fs
    ELSE [root |-> "missing", entries |-> EmptyMap]

\* set_slide_library_path that hands the fields of the manager in place to
\* the new one.
set_slide_library_path_reuse(library_path) ==
    [library_path |-> library_path, slides |-> slides, themes |-> themes,
     _indexed |-> _indexed]

\* SlideLibraryManager(library_path): lines 175-179.
SlideLibraryManager(library_path) ==
    [library_path |-> library_path, slides |-> <<>>, themes |-> EmptyMap,
     _indexed |-> FALSE]

\* set_slide_library_path (lines 515-519): the manager it constructs.
set_slide_library_path(library_path) == SlideLibraryManager(library_path)

\* get_slide_library (lines 505-512) for library_path None or Some(path): the
\* manager it returns, which is the singleton after the call, or the
\* ValueError of line 510.
get_slide_library(library_path) ==
    IF _library_manager # None
    THEN [outcome |-> "ok",
          manager |-> [library_path |-> _library_manager[1], slides |-> slides,
                       themes |-> themes, _indexed |-> _indexed]]
    ELSE IF library_path = None
         THEN [outcome |-> "ValueError", manager |-> None]
         ELSE [outcome |-> "ok", manager |-> SlideLibraryManager(library_path[1])]

\* A tool call: the singleton and its manager after it, and in `last` what
\* the handler returned or the exception that left it.
Handled(op, args, path, r, result) ==
    /\ _library_manager' = path
    /\ slides' = r.slides
    /\ themes' = r.themes
    /\ _indexed' = r._indexed
    /\ last' = [op |-> op, args |-> args, indexed_before |-> _indexed,
                outcome |-> r.outcome, result |-> result]

\* What index() raised, caught by the handler and returned as text.
Caught(r) == [r EXCEPT !.outcome = "ok"]

\* _handle_index_slide_library (lines 345-357) with the manager m that
\* set_slide_library_path installed.
IndexHandled(library_path, m, r) ==
    Handled("index_slide_library", [library_path |-> library_path],
            Some(m.library_path), Caught(r),
            IF r.outcome = "ok" THEN [stats |-> r.result] ELSE [error |-> r.outcome])

HandleIndexSlideLibrary ==
    \E library_path \in Range(LibraryPaths) :
        /\ IndexHandled(library_path, set_slide_library_path(library_path),
                        index(set_slide_library_path(library_path),
                              DiskAt(library_path)))
        /\ UNCHANGED <<fs, scan, builderVars, set_order>>

\* A call of get_slide_library itself, given what it returned or raised.
GotLibrary(library_path, r) ==
    IF r.outcome = "ok"
    THEN Handled("get_slide_library", [library_path |-> library_path],
                 Some(r.manager.library_path),
                 [slides |-> r.manager.slides, themes |-> r.manager.themes,
                  _indexed |-> r.manager._indexed, outcome |-> "ok"],
                 [library_path |-> r.manager.library_path])
    ELSE /\ last' = [op |-> "get_slide_library",
                     args |-> [library_path |-> library_path],
                     indexed_before |-> _indexed,
                     outcome |-> r.outcome, result |-> <<>>]
         /\ UNCHANGED <<slides, themes, _indexed, _library_manager>>

GetSlideLibrary ==
    \E library_path \in {None} \cup {Some(p) : p \in Range(LibraryPaths)} :
        /\ GotLibrary(library_path, get_slide_library(library_path))
        /\ UNCHANGED <<fs, scan, builderVars, set_order>>

\* A call of set_slide_library_path itself (lines 515-519): the manager it
\* constructs is the singleton from now on, the index held before is gone and
\* nothing is scanned.
SetSlideLibraryPath ==
    \E library_path \in Range(LibraryPaths) :
        /\ Handled("set_slide_library_path", [library_path |-> library_path],
                   Some(set_slide_library_path(library_path).library_path),
                   [slides   |-> set_slide_library_path(library_path).slides,
                    themes   |-> set_slide_library_path(library_path).themes,
                    _indexed |-> set_slide_library_path(library_path)._indexed,
                    outcome  |-> "ok"],
                   [library_path |-> set_slide_library_path(library_path).library_path])
        /\ UNCHANGED <<fs, scan, builderVars, set_order>>

\* The handlers answer the ValueError of get_slide_library() with a text
\* (lines 366-367, 400-401) and nothing changes.
NoLibraryIndexed(op, args) ==
    /\ last' = [op |-> op, args |-> args, indexed_before |-> _indexed,
                outcome |-> "ok", result |-> [error |-> "ValueError"]]
    /\ UNCHANGED <<slides, themes, _indexed, _library_manager>>

\* arguments.get("limit", 10) for limit None or Some(n)
LimitOf(limit) == IF limit = None THEN 10 ELSE limit[1]

\* What the handler makes of the search results (lines 376-392): a fixed text
\* without results, else one numbered paragraph per result, kept as the list.
SearchReply(results) ==
    IF results = <<>> THEN [text |-> "No slides found matching query."]
    ELSE [found |-> results]

\* _handle_search_slide_library (lines 360-392): the exception of a failing
\* scan leaves the handler.
SearchHandled(args, r) ==
    Handled("search_slide_library", args, _library_manager, r,
            IF r.outcome = "ok"
            THEN SearchReply(search(r.slides, args.query, LimitOf(args.limit),
                                    args.theme_filter, args.label_filter,
                                    args.section_filter))
            ELSE <<>>)

HandleSearchSlideLibrary ==
    \E query \in Queries, limit \in {None, Some(1)}, theme_filter \in ThemeFilters :
        /\ IF get_slide_library(None).outcome = "ValueError"
           THEN NoLibraryIndexed("search_slide_library",
                                 [query |-> query, limit |-> limit,
                                  theme_filter |-> theme_filter,
                                  label_filter |-> None, section_filter |-> None])
           ELSE SearchHandled([query |-> query, limit |-> limit,
                               theme_filter |-> theme_filter,
                               label_filter |-> None, section_filter |-> None],
                              _ensure_indexed(Manager, DiskAt(_library_manager[1])))
        /\ UNCHANGED <<fs, scan, builderVars, set_order>>

\* _handle_get_slide_library_stats (lines 395-404).
StatsHandled(r) ==
    Handled("get_slide_library_stats", <<>>, _library_manager, r,
            IF r.outcome = "ok" THEN [stats |-> LibraryStats(r.slides, r.themes)]
            ELSE <<>>)

HandleGetSlideLibraryStats ==
    /\ IF get_slide_library(None).outcome = "ValueError"
       THEN NoLibraryIndexed("get_slide_library_stats", <<>>)
       ELSE StatsHandled(_ensure_indexed(Manager, DiskAt(_library_manager[1])))
    /\ UNCHANGED <<fs, scan, builderVars, set_order>>

InitTools ==
    /\ fs \in [root : {"dir"},
               entries : TreesOver(SearchThemes, SearchFiles, SearchStates)]
    /\ Fresh

NextTools ==
    \/ HandleIndexSlideLibrary
    \/ HandleSearchSlideLibrary
    \/ HandleGetSlideLibraryStats
    \/ GetSlideLibrary
    \/ SetSlideLibraryPath

SpecTools == InitTools /\ [][NextTools]_vars

\* ------------------------------------------------------------------------
\* ProposalDeckBuilder (src/src/pptx_builder.py)
\* ------------------------------------------------------------------------
\* prs is None (<<>>) or <<deck>>; a deck is [layouts, slides]: the names of
\* its slide layouts and, per slide, the layout it was made from, where it
\* came from and whether a table was drawn on it.  The text put into
\* placeholders and notes is never read back by the builder and is left out.
\* saved is the set of paths, as str(Path(output_path)), that hold a written
\* deck.

\* SECTION_DISPLAY_NAMES, in the order of the dict literal.
SECTION_DISPLAY_NAMES ==
    << [id |-> "executive_summary",     name |-> "Executive Summary"],
       [id |-> "client_understanding",  name |-> "Understanding Client Needs"],
       [id |-> "solution_overview",     name |-> "Solution Overview"],
       [id |-> "delivery_model",        name |-> "Delivery Model"],
       [id |-> "technology",            name |-> "Technology & Innovation"],
       [id |-> "governance_compliance", name |-> "Governance & Compliance"],
       [id |-> "implementation",        name |-> "Implementation & Transition"],
       [id |-> "team_leadership",       name |-> "Team & Leadership"],
       [id |-> "proof_points",          name |-> "Proof Points & Evidence"] >>

\* section_order from the last section to the first.
section_order_reversed ==
    << "proof_points", "team_leadership", "implementation",
       "governance_compliance", "technology", "delivery_model",
       "solution_overview", "client_understanding", "executive_summary" >>

\* section_order of build_full_proposal.
section_order ==
    << "executive_summary", "client_understanding", "solution_overview",
       "delivery_model", "technology", "governance_compliance",
       "implementation", "team_leadership", "proof_points" >>

\* The slide layouts of the template python-pptx starts Presentation() from.
DefaultLayouts ==
    << "Title Slide", "Title and Content", "Section Header", "Two Content",
       "Comparison", "Title Only", "Blank", "Content with Caption",
       "Picture with Caption", "Title and Vertical Text",
       "Vertical Title and Text" >>

FileSlide == [layout |-> 0, origin |-> "file", table |-> FALSE]

\* The presentation files on disk: a template with one slide, whose first
\* layout is the content layout, and a library deck of two slides.
PptxFiles ==
    [p \in {"template.pptx", "library/soc2.pptx"} |->
        IF p = "template.pptx"
        THEN [layouts |-> <<"Content", "Cover", "Section", "Blank">>,
              slides  |-> <<FileSlide>>]
        ELSE [layouts |-> <<"Title Slide", "Blank">>,
              slides  |-> <<FileSlide, FileSlide>>]]

\* Presentation(path): the deck read from the file, None when it cannot be
\* opened.
Presentation(path) ==
    IF path \in DOMAIN PptxFiles THEN Some(PptxFiles[path]) ELSE None

\* layout.name.lower() and name_pattern.lower() (line 611) for every layout
\* name of the decks and every pattern the builder looks for, computed once.
NameLower ==
    [n \in Range(DefaultLayouts)
              \cup UNION {Range(PptxFiles[p].layouts) : p \in DOMAIN PptxFiles}
              \cup {"section", "content", "blank"} |-> Lower(n)]

\* seq[idx] of a Python sequence of length n: the 1-based position read, 0
\* when the index raises IndexError.  A negative index counts from the end.
PyIndex(n, idx) ==
    IF idx >= 0 /\ idx < n THEN idx + 1
    ELSE IF idx < 0 /\ idx >= 0 - n THEN n + idx + 1
    ELSE 0

\* The builder after a call that raised: its state b, and the exception.
Raise(b, exc) ==
    [prs |-> b.prs, slide_count |-> b.slide_count,
     sections_added |-> b.sections_added, outcome |-> exc, result |-> <<>>]

\* The builder after a call that returned; the value returned is kept as a
\* record named after what it is.
Return(b, result) ==
    [prs |-> b.prs, slide_count |-> b.slide_count,
     sections_added |-> b.sections_added, outcome |-> "ok", result |-> result]

\* prs.slides.add_slide(layout): the deck with one more slide at the end.
AddSlide(deck, slide) == [deck EXCEPT !.slides = Append(@, slide)]

\* create_blank (lines 577-581).
create_blank(b) ==
    Return([prs |-> Some([layouts |-> DefaultLayouts, slides |-> <<>>]),
            slide_count |-> 0, sections_added |-> <<>>], <<>>)

\* create_from_template that starts the count at zero.
create_from_template_zero(b, template_path) ==
    IF Presentation(template_path) = None
    THEN Raise(b, "PackageNotFoundError")
    ELSE Return([prs |-> Presentation(template_path),
                 slide_count |-> 0,
                 sections_added |-> <<>>],
                [layouts |-> Presentation(template_path)[1].layouts])

\* create_from_template (lines 583-593); returns the template analysis, of
\* which the model keeps the layout names.
create_from_template(b, template_path) ==
    IF Presentation(template_path) = None
    THEN Raise(b, "PackageNotFoundError")
    ELSE Return([prs |-> Presentation(template_path),
                 slide_count |-> Len(Presentation(template_path)[1].slides),
                 sections_added |-> <<>>],
                [layouts |-> Presentation(template_path)[1].layouts])

\* open_existing that empties sections_added.
open_existing_reset(b, file_path) ==
    IF Presentation(file_path) = None
    THEN Raise(b, "PackageNotFoundError")
    ELSE Return([prs |-> Presentation(file_path),
                 slide_count |-> Len(Presentation(file_path)[1].slides),
                 sections_added |-> <<>>],
                [slide_count |-> Len(Presentation(file_path)[1].slides)])

\* open_existing (lines 595-599): sections_added is left as it is.
open_existing(b, file_path) ==
    IF Presentation(file_path) = None
    THEN Raise(b, "PackageNotFoundError")
    ELSE Return([prs |-> Presentation(file_path),
                 slide_count |-> Len(Presentation(file_path)[1].slides),
                 sections_added |-> b.sections_added],
                [slide_count |-> Len(Presentation(file_path)[1].slides)])

\* The 0-based index of the first layout whose name contains the pattern,
\* None without one.
RECURSIVE FirstLayout(_, _, _)
FirstLayout(layouts, name_lower, i) ==
    IF i > Len(layouts) THEN None
    ELSE IF Contains(NameLower[layouts[i]], name_lower) THEN Some(i - 1)
    ELSE FirstLayout(layouts, name_lower, i + 1)

\* find_layout_by_name (lines 605-613).
find_layout_by_name(p, name_pattern) ==
    IF p = None THEN None ELSE FirstLayout(p[1].layouts, NameLower[name_pattern], 1)

\* `x or default` for an Optional[int]: None and 0 are both falsy.
OrElse(x, default) == IF x = None \/ x = Some(0) THEN default ELSE x[1]

\* add_title_slide lines 626-636 once add_slide_from_layout found layout li
\* (1-based, 0 for an IndexError) in the deck.
TitleSlideAdded(b, deck, li) ==
    IF li = 0 THEN Raise(b, "IndexError")
    ELSE Return([b EXCEPT !.prs = Some(AddSlide(deck, [layout |-> li - 1,
                                                        origin |-> "title",
                                                        table  |-> FALSE])),
                          !.slide_count = @ + 1],
                [index |-> b.slide_count])

\* add_title_slide (lines 615-636), without the title and subtitle texts:
\* add_slide_from_layout reads prs.slide_layouts, which None does not have.
add_title_slide(b, layout_index) ==
    IF b.prs = None THEN Raise(b, "AttributeError")
    ELSE TitleSlideAdded(b, b.prs[1], PyIndex(Len(b.prs[1].layouts), layout_index))

\* add_section_divider (lines 638-655).
add_section_divider(b, section_type) ==
    add_title_slide(b, OrElse(find_layout_by_name(b.prs, "section"), 0))

\* len(table_data) and max(len(row) for row in table_data).
RECURSIVE MaxRowLen(_)
MaxRowLen(rows) ==
    IF Len(rows) = 1 THEN Len(rows[1])
    ELSE IF Len(rows[1]) >= MaxRowLen(Tail(rows)) THEN Len(rows[1])
    ELSE MaxRowLen(Tail(rows))

\* Lines 684-696 on the deck that already holds the new slide: a table of
\* zero columns makes add_table divide the width by zero, after which the
\* counters are not reached.
SectionSlideFilled(b, deck, content, cols) ==
    IF cols = 0
    THEN Raise([b EXCEPT !.prs = Some(deck)], "ZeroDivisionError")
    ELSE Return([b EXCEPT !.prs = Some(deck),
                          !.slide_count = @ + 1,
                          !.sections_added = Append(@, content.section_type)],
                [index |-> b.slide_count])

\* Number of columns of the table add_section_slide draws, -1 without a table.
TableCols(content) ==
    IF content.table_data = None \/ content.table_data[1] = <<>> THEN 0 - 1
    ELSE MaxRowLen(content.table_data[1])

\* Lines 671-696 for layout li (1-based, 0 for an IndexError).
SectionSlideAdded(b, deck, content, li) ==
    IF li = 0 THEN Raise(b, "IndexError")
    ELSE SectionSlideFilled(b,
             AddSlide(deck, [layout |-> li - 1, origin |-> "section",
                             table  |-> TableCols(content) > 0]),
             content, TableCols(content))

\* Lines 667-669: the layout index add_section_slide settles on.
SectionLayout(p, n) ==
    IF OrElse(find_layout_by_name(p, "content"), 1) >= n
    THEN (IF n - 1 < 1 THEN n - 1 ELSE 1)
    ELSE OrElse(find_layout_by_name(p, "content"), 1)

\* add_section_slide (lines 657-696): len(self.prs.slide_layouts) raises on
\* None.
add_section_slide(b, content) ==
    IF b.prs = None THEN Raise(b, "AttributeError")
    ELSE SectionSlideAdded(b, b.prs[1], content,
             PyIndex(Len(b.prs[1].layouts),
                     SectionLayout(b.prs, Len(b.prs[1].layouts))))

\* The layout clone_slide_from_file adds the copy with (lines 489-495): the
\* first whose name contains "blank", else the last.
BlankLayout(deck) ==
    IF FirstLayout(deck.layouts, "blank", 1) = None
    THEN PyIndex(Len(deck.layouts), 0 - 1)
    ELSE FirstLayout(deck.layouts, "blank", 1)[1] + 1

\* clone_slide_from_file lines 486-512 for the source slide at position si
\* (1-based, 0 for an IndexError of source_prs.slides[...]).
CloneAdded(b, source_path, si) ==
    IF si = 0 THEN Raise(b, "IndexError")
    ELSE IF b.prs = None THEN Raise(b, "AttributeError")
    ELSE IF BlankLayout(b.prs[1]) = 0 THEN Raise(b, "IndexError")
    ELSE Return([b EXCEPT !.prs = Some(AddSlide(b.prs[1],
                                [layout |-> BlankLayout(b.prs[1]) - 1,
                                 origin |-> <<source_path, si>>,
                                 table  |-> FALSE])),
                          !.slide_count = @ + 1],
                [index |-> b.slide_count])

\* clone_slide_from_file (lines 478-497) on the opened source deck.
clone_slide_from_file(b, source, source_path, source_slide_index) ==
    IF source_slide_index >= Len(source.slides)
    THEN Raise(b, "IndexError")
    ELSE CloneAdded(b, source_path, PyIndex(Len(source.slides), source_slide_index))

\* add_slide_from_library (lines 698-730).
add_slide_from_library(b, source_path, source_slide_index) ==
    IF Presentation(source_path) = None
    THEN Raise(b, "PackageNotFoundError")
    ELSE clone_slide_from_file(b, Presentation(source_path)[1], source_path,
                               source_slide_index)

\* One round of the loop of build_full_proposal (lines 762-769) for a section
\* that has content; r is the builder after the divider, when one is added.
SectionAfterDivider(r, content) ==
    IF r.outcome # "ok" THEN r ELSE add_section_slide(r, content)

RECURSIVE BuildSections(_, _, _, _)
BuildSections(b, ids, sections_content, include_dividers) ==
    IF ids = <<>> \/ b.outcome # "ok" THEN b
    ELSE IF Head(ids) \notin DOMAIN sections_content
         THEN BuildSections(b, Tail(ids), sections_content, include_dividers)
         ELSE BuildSections(
                  SectionAfterDivider(
                      IF include_dividers THEN add_section_divider(b, Head(ids))
                      ELSE Return(b, <<>>),
                      sections_content[Head(ids)]),
                  Tail(ids), sections_content, include_dividers)

\* Lines 771: the total returned, or the exception that ended the loop.
BuildDone(r) == IF r.outcome = "ok" THEN Return(r, [total |-> r.slide_count]) ELSE r

\* build_full_proposal (lines 732-771).
build_full_proposal(b, sections_content, include_dividers, title) ==
    BuildDone(BuildSections(IF Truthy(title) THEN add_title_slide(b, 0)
                            ELSE Return(b, <<>>),
                            section_order, sections_content, include_dividers))

\* The output paths a deck cannot be written to.
Unwritable == {"/proc/deck.pptx"}

\* The working directory of the process.
Cwd == "/work"

\* Path(s): the root of s is "//" for exactly two leading slashes, "/" for any
\* other number of them and "" for a relative path; the parts are what lies
\* between the slashes, without the empty ones and the "." ones.
PathRoot(s) ==
    IF Len(s) >= 2 /\ SubSeq(s, 1, 2) = "//" /\ (Len(s) = 2 \/ CharAt(s, 3) # "/")
    THEN "//"
    ELSE IF s # "" /\ CharAt(s, 1) = "/" THEN "/" ELSE ""

RECURSIVE PathParts(_, _)
PathParts(s, cur) ==
    LET part == IF cur \in {"", "."} THEN <<>> ELSE <<cur>>
    IN  IF s = "" THEN part
        ELSE IF CharAt(s, 1) = "/" THEN part \o PathParts(Tail(s), "")
        ELSE PathParts(Tail(s), cur \o CharAt(s, 1))

RECURSIVE PathJoin(_)
PathJoin(parts) ==
    IF parts = <<>> THEN ""
    ELSE IF Len(parts) = 1 THEN Head(parts)
    ELSE Head(parts) \o "/" \o PathJoin(Tail(parts))

\* str(Path(s))
PathStr(s) ==
    IF PathRoot(s) = "" /\ PathParts(s, "") = <<>> THEN "."
    ELSE PathRoot(s) \o PathJoin(PathParts(s, ""))

\* str(Path(s).absolute()) in a process whose working directory is cwd: a
\* relative path is put under cwd, ".." parts stay.
absolute(cwd, s) ==
    IF PathRoot(s) # "" THEN PathStr(s)
    ELSE IF PathParts(s, "") = <<>> THEN cwd
    ELSE IF cwd = "/" THEN "/" \o PathStr(s)
    ELSE cwd \o "/" \o PathStr(s)

\* save that closes the deck once it is written.
save_closing(b, output_path) ==
    IF b.prs = None THEN Raise(b, "RuntimeError")
    ELSE IF output_path \in Unwritable THEN Raise(b, "OSError")
    ELSE Return([b EXCEPT !.prs = None], [path |-> absolute(Cwd, output_path)])

\* save (lines 773-787).
save(b, output_path) ==
    IF b.prs = None THEN Raise(b, "RuntimeError")
    ELSE IF output_path \in Unwritable THEN Raise(b, "OSError")
    ELSE Return(b, [path |-> absolute(Cwd, output_path)])

\* save_to_bytes (lines 789-795): the bytes are those of the deck.
save_to_bytes(b) ==
    IF b.prs = None THEN Raise(b, "RuntimeError")
    ELSE Return(b, [bytes |-> b.prs[1]])

\* [s for s in SECTION_DISPLAY_NAMES if s not in sections_added]
RECURSIVE Missing(_, _)
Missing(names, added) ==
    IF names = <<>> THEN <<>>
    ELSE (IF Head(names).id \in Range(added) THEN <<>> ELSE <<Head(names).id>>)
         \o Missing(Tail(names), added)

\* get_build_summary (lines 797-806).
get_build_summary(b) ==
    Return(b, [slide_count      |-> b.slide_count,
               sections_added   |-> b.sections_added,
               sections_missing |-> Missing(SECTION_DISPLAY_NAMES, b.sections_added)])

\* ------------------------------------------------------------------------
\* State machine of the builder
\* ------------------------------------------------------------------------

MaxDeck == 2

SlideContent(section_type, table_data) ==
    [section_type |-> section_type, table_data |-> table_data]

\* The contents slides are added with: one without a table, one with a table
\* of one row, one whose table_data is [[]].
Contents ==
    { SlideContent("executive_summary", None),
      SlideContent("proof_points", Some(<< <<"KPI", "Value">> >>)),
      SlideContent("technology", Some(<< <<>> >>)) }

ContentOf(section_type) == CHOOSE c \in Contents : c.section_type = section_type

\* The sections_content dicts build_full_proposal is called with.
SectionsContents ==
    { [s \in S |-> ContentOf(s)] :
        S \in { {}, {"executive_summary"}, {"executive_summary", "technology"},
                {"proof_points", "executive_summary"} } }

TemplatePaths == {"template.pptx", "missing.pptx"}

SourcePaths == {"library/soc2.pptx", "missing.pptx"}

SourceIndexes == {0 - 3, 0 - 1, 0, 2}

LayoutIndexes == {0, 99}

OutputPaths == {"out/a.pptx", "./out//b.pptx", "/proc/deck.pptx"}

Builder == [prs |-> prs, slide_count |-> slide_count, sections_added |-> sections_added]

\* The builder states the model follows: those with at most MaxDeck slides
\* and MaxDeck sections, whatever one call makes of a deck without slides and
\* sections, so that a whole proposal is built at least once, and every call
\* that leaves the deck and the sections as they are.
Fits(b, r) ==
    IF b.prs # None /\ b.prs[1].slides = <<>> /\ b.sections_added = <<>>
    THEN TRUE
    ELSE IF r.prs = b.prs /\ r.sections_added = b.sections_added
    THEN TRUE
    ELSE /\ IF r.prs = None THEN TRUE ELSE Len(r.prs[1].slides) <= MaxDeck
         /\ Len(r.sections_added) <= MaxDeck

\* A call of a builder method: the builder state it leaves and, in `last`,
\* what it returned or raised.
Built(op, args, r) ==
    /\ Fits(Builder, r)
    /\ prs' = r.prs
    /\ slide_count' = r.slide_count
    /\ sections_added' = r.sections_added
    /\ last' = [op |-> op, args |-> args, indexed_before |-> FALSE,
                outcome |-> r.outcome, result |-> r.result]

CreateBlank ==
    /\ Built("create_blank", <<>>, create_blank(Builder))
    /\ UNCHANGED <<saved, scan, libraryVars, toolVars, set_order>>

CreateFromTemplate ==
    \E template_path \in TemplatePaths :
        /\ Built("create_from_template", [template_path |-> template_path],
                 create_from_template(Builder, template_path))
        /\ UNCHANGED <<saved, scan, libraryVars, toolVars, set_order>>

OpenExisting ==
    \E file_path \in TemplatePaths :
        /\ Built("open_existing", [file_path |-> file_path],
                 open_existing(Builder, file_path))
        /\ UNCHANGED <<saved, scan, libraryVars, toolVars, set_order>>

AddTitleSlide ==
    \E layout_index \in LayoutIndexes :
        /\ Built("add_title_slide", [layout_index |-> layout_index],
                 add_title_slide(Builder, layout_index))
        /\ UNCHANGED <<saved, scan, libraryVars, toolVars, set_order>>

AddSectionDivider ==
    \E section_type \in {"executive_summary"} :
        /\ Built("add_section_divider", [section_type |-> section_type],
                 add_section_divider(Builder, section_type))
        /\ UNCHANGED <<saved, scan, libraryVars, toolVars, set_order>>

AddSectionSlide ==
    \E content \in Contents :
        /\ Built("add_section_slide", [content |-> content],
                 add_section_slide(Builder, content))
        /\ UNCHANGED <<saved, scan, libraryVars, toolVars, set_order>>

AddSlideFromLibrary ==
    \E source_path \in SourcePaths, source_slide_index \in SourceIndexes :
        /\ Built("add_slide_from_library",
                 [source_path |-> source_path,
                  source_slide_index |-> source_slide_index],
                 add_slide_from_library(Builder, source_path, source_slide_index))
        /\ UNCHANGED <<saved, scan, libraryVars, toolVars, set_order>>

BuildFullProposal ==
    \E sections_content \in SectionsContents, include_dividers \in BOOLEAN,
       title \in {None, Some("Proposal")} :
        /\ Built("build_full_proposal",
                 [sections_content |-> sections_content,
                  include_dividers |-> include_dividers, title |-> title],
                 build_full_proposal(Builder, sections_content, include_dividers,
                                     title))
        /\ UNCHANGED <<saved, scan, libraryVars, toolVars, set_order>>

Save ==
    \E output_path \in OutputPaths :
        /\ Built("save", [output_path |-> output_path], save(Builder, output_path))
        /\ saved' = IF save(Builder, output_path).outcome = "ok"
                    THEN saved \cup {PathStr(output_path)} ELSE saved
        /\ UNCHANGED <<scan, libraryVars, toolVars, set_order>>

SaveToBytes ==
    /\ Built("save_to_bytes", <<>>, save_to_bytes(Builder))
    /\ UNCHANGED <<saved, scan, libraryVars, toolVars, set_order>>

GetBuildSummary ==
    /\ Built("get_build_summary", <<>>, get_build_summary(Builder))
    /\ UNCHANGED <<saved, scan, libraryVars, toolVars, set_order>>

NoLibrary == [root |-> "missing", entries |-> EmptyMap]

InitBuilder ==
    /\ fs = NoLibrary
    /\ Fresh

NextBuilder ==
    \/ CreateBlank
    \/ CreateFromTemplate
    \/ OpenExisting
    \/ AddTitleSlide
    \/ AddSectionDivider
    \/ AddSectionSlide
    \/ AddSlideFromLibrary
    \/ BuildFullProposal
    \/ Save
    \/ SaveToBytes
    \/ GetBuildSummary

SpecBuilder == InitBuilder /\ [][NextBuilder]_vars

\* ------------------------------------------------------------------------
\* Properties
\* ------------------------------------------------------------------------

FreshManager == [slides |-> <<>>, themes |-> EmptyMap, _indexed |-> FALSE]

ReadOps ==
    {"search", "get_slides_for_section", "get_slides_for_label",
     "get_library_stats", "select_slides_for_proposal", "get_theme_slides",
     "list_themes"}

RECURSIVE SumOver(_, _)
SumOver(S, f) ==
    IF S = {} THEN 0
    ELSE LET x == CHOOSE y \in S : TRUE IN f[x] + SumOver(S \ {x}, f)

SlidesOf(results) == {results[i].slide : i \in 1..Len(results)}

\* No keyword of any label occurs in the theme name followed by the text.
KeywordFree(theme_name, text) ==
    LET together == Lower(theme_name) \o " " \o Lower(text)
    IN  \A i \in 1..Len(LABEL_KEYWORDS) :
            \A k \in 1..Len(LABEL_KEYWORDS[i].keywords) :
                ~Contains(together, KeywordLower[LABEL_KEYWORDS[i].keywords[k]])

KeywordFreeSlides ==
    [theme_name \in ThemeNames |->
        [text \in OcrTexts |-> KeywordFree(theme_name, text)]]

\* C1: once index() has succeeded, every SlideEntry of the manager has its
\* backend_section among the nine BACKEND_SECTIONS and its primary_label among
\* the nine PRIMARY_LABELS, which include "unclassified".
C1_TaxonomyMembership ==
    /\ Cardinality(Range(BACKEND_SECTIONS)) = 9
    /\ Cardinality(Range(PRIMARY_LABELS)) = 9
    /\ "unclassified" \in Range(PRIMARY_LABELS)
    /\ _indexed =>
         \A i \in 1..Len(slides) :
             /\ slides[i].backend_section \in Range(BACKEND_SECTIONS)
             /\ slides[i].primary_label \in Range(PRIMARY_LABELS)

C1_Witness ==
    /\ last.op = "index" /\ last.outcome = "ok"
    /\ \E i \in 1..Len(slides) :
         /\ slides[i].primary_label = "operational_details"
         /\ slides[i].backend_section = "team_leadership"
    /\ \E j \in 1..Len(slides) : slides[j].primary_label = "unclassified"

\* C2 as claimed: a read operation called on a manager that has never been
\* indexed fails with a dedicated not-indexed error and does not scan the
\* library.
C2_NotIndexedError ==
    (last.op \in ReadOps /\ ~last.indexed_before) =>
        /\ last.outcome = "NotIndexedError"
        /\ ~_indexed
        /\ slides = <<>>

\* C2 as the code has it: a read operation called on a manager that has never
\* been indexed runs index() itself; when the scan succeeds the manager is left
\* indexed with one entry per slide file on disk and the call returns normally,
\* otherwise the call raises the error of index() and the manager stays
\* unindexed.
NumSlideFiles(d) ==
    SumOver({t \in DOMAIN d.entries : d.entries[t].is_dir},
            [t \in DOMAIN d.entries |-> Cardinality(DOMAIN d.entries[t].files)])

C2_LazyIndex ==
    (last.op \in ReadOps /\ ~last.indexed_before) =>
        \/ /\ last.outcome = "ok"
           /\ _indexed
           /\ fs.root = "dir"
           /\ Len(slides) = NumSlideFiles(fs)
           /\ slides = index(FreshManager, fs).slides
        \/ /\ last.outcome = "FileNotFoundError"
           /\ fs.root = "missing"
           /\ ~_indexed
        \/ /\ last.outcome \in {"NotADirectoryError", "OSError"}
           /\ last.outcome = index(FreshManager, fs).outcome
           /\ ~_indexed

C2_Witness ==
    /\ last.op = "search" /\ ~last.indexed_before
    /\ last.outcome = "ok"
    /\ last.result # <<>>

\* C3: whenever index() raises, the slide list, the theme map and the indexed
\* flag are what they were before the call.
C3_AllOrNothing ==
    [][(last'.op = "index" /\ last'.outcome # "ok" /\ fs' = fs)
          => UNCHANGED <<slides, themes, _indexed>>]_vars

\* C4: the summary index() returns and get_library_stats() report total_slides
\* equal to the sum of the slide counts of the themes of the theme map, and
\* total_themes equal to the number of keys of the per-theme map.
C4_StatsTotals ==
    (last.op \in {"index", "get_library_stats"} /\ last.outcome = "ok") =>
        /\ last.result.total_slides =
             SumOver(DOMAIN themes, [n \in DOMAIN themes |-> themes[n].slide_count])
        /\ last.result.total_slides =
             SumOver(DOMAIN last.result.themes,
                     [n \in DOMAIN last.result.themes |->
                        IF last.op = "index" THEN last.result.themes[n]
                        ELSE last.result.themes[n].slides])
        /\ last.result.total_themes = Cardinality(DOMAIN last.result.themes)
        /\ DOMAIN last.result.themes = DOMAIN themes

C4_Witness ==
    /\ last.op = "get_library_stats" /\ last.outcome = "ok"
    /\ last.result.total_slides = 2
    /\ last.result.total_themes = 2

\* C5: index() on a manager that holds the index of the directory tree on disk
\* succeeds and leaves the slide list and the theme map as they are, the k-th
\* slide carrying the id of number k: nothing is accumulated and ids restart
\* at 1.
HoldsIndexOf(d) ==
    LET r == index(FreshManager, d)
    IN  r.outcome = "ok" /\ _indexed /\ slides = r.slides /\ themes = r.themes

C5_ReindexIdempotent ==
    [][(HoldsIndexOf(fs) /\ last'.op = "index" /\ fs' = fs)
          => /\ last'.outcome = "ok"
             /\ slides' = slides
             /\ themes' = themes
             /\ \A k \in 1..Len(slides') : slides'[k].id = "slide_" \o Pad4(k)]_vars

C5_Witness ==
    /\ last.op = "index" /\ last.indexed_before /\ last.outcome = "ok"
    /\ HoldsIndexOf(fs)
    /\ Len(slides) = 2
    /\ slides[2].id = "slide_0002"

\* The keywords of all labels that occur in a theme name or a sidecar text.
KeywordsIn ==
    [s \in ThemeNames \cup OcrTexts |->
        UNION { {LABEL_KEYWORDS[n].keywords[k] : k \in
                   {k \in 1..Len(LABEL_KEYWORDS[n].keywords) :
                      Contains(Lower(s), KeywordLower[LABEL_KEYWORDS[n].keywords[k]])}}
                : n \in 1..Len(LABEL_KEYWORDS) }]

\* Slides i and j carry the same text, a keyword of the label entry is matched
\* in that text and occurs in the theme name of slide i, and the theme name of
\* slide j contains no keyword of the label.
BoostedPair(i, j, entry) ==
    /\ i # j
    /\ slides[i].ocr_text = slides[j].ocr_text
    /\ Range(entry.keywords) \cap KeywordsIn[slides[i].ocr_text]
         \cap KeywordsIn[slides[i].theme] # {}
    /\ Range(entry.keywords) \cap KeywordsIn[slides[j].theme] = {}

\* C9 as claimed: the confidence of the slide whose theme name contains the
\* matched keyword is strictly higher than that of the same slide under a
\* theme name without any keyword of the label.
C9_ThemeBoostStrict ==
    \A i, j \in 1..Len(slides) :
        \A n \in 1..Len(LABEL_KEYWORDS) :
            BoostedPair(i, j, LABEL_KEYWORDS[n])
                => slides[i].confidence > slides[j].confidence

\* The label is the one both slides are classified with, the keywords matched
\* for slide j all occur in the text itself, and the confidence of slide j is
\* below the 1.0 clamp.
BoostDecides(i, j, entry) ==
    /\ slides[i].primary_label = entry.label
    /\ slides[j].primary_label = entry.label
    /\ Range(slides[j].keywords_matched) \subseteq KeywordsIn[slides[j].ocr_text]
    /\ slides[j].confidence < 1000

\* C9 as the code has it: the confidence is strictly higher when that label is
\* the label both slides are classified with, no keyword is matched for the
\* slide without the boost other than those found in the text itself, and its
\* confidence is below the 1.0 clamp.
C9_ThemeBoostOfWinner ==
    \A i, j \in 1..Len(slides) :
        \A n \in 1..Len(LABEL_KEYWORDS) :
            (BoostedPair(i, j, LABEL_KEYWORDS[n]) /\ BoostDecides(i, j, LABEL_KEYWORDS[n]))
                => slides[i].confidence > slides[j].confidence

C9_Witness ==
    \E i, j \in 1..Len(slides) :
        \E n \in 1..Len(LABEL_KEYWORDS) :
            /\ BoostedPair(i, j, LABEL_KEYWORDS[n])
            /\ BoostDecides(i, j, LABEL_KEYWORDS[n])
            /\ slides[i].theme = "Compliance"
            /\ slides[i].confidence = 577
            /\ slides[j].confidence = 385

\* C10: a slide whose theme name and text together contain no keyword of any
\* label is "unclassified" with confidence 0.0 and no matched keyword, and its
\* section is "executive_summary".
C10_NoKeywordUnclassified ==
    \A i \in 1..Len(slides) :
        KeywordFreeSlides[slides[i].theme][slides[i].ocr_text] =>
            /\ slides[i].primary_label = "unclassified"
            /\ slides[i].confidence = 0
            /\ slides[i].keywords_matched = <<>>
            /\ slides[i].backend_section = "executive_summary"

\* The whitespace-separated tokens of the lower-cased query, for every query
\* of the model.
QueryTokens == [query \in Queries \cup RankQueries |-> Split(Lower(query))]

\* C6: every slide search() returns has a token of the query, of two or more
\* characters, occurring in its lower-cased "theme text file-name" string, and
\* a query without a token of two or more characters returns the empty list.
C6_MatchRequired ==
    (last.op = "search" /\ last.outcome = "ok") =>
        LET tokens == QueryTokens[last.args.query]
            long   == {i \in 1..Len(tokens) : Len(tokens[i]) >= 2}
        IN  /\ \A k \in 1..Len(last.result) :
                 \E i \in long :
                     Contains(SearchText(last.result[k].slide), tokens[i])
            /\ long = {} => last.result = <<>>

\* A query of two tokens of one character each, both occurring in the search
\* text of both indexed slides, returned the empty list.
C6_Witness ==
    /\ last.op = "search" /\ last.outcome = "ok"
    /\ last.args.query = "a x"
    /\ last.args.theme_filter = None /\ last.args.section_filter = None
    /\ last.args.label_filter = None
    /\ last.args.limit = MaxLimit
    /\ Len(slides) = 2
    /\ \A i \in 1..Len(slides) :
           Contains(SearchText(slides[i]), "a") /\ Contains(SearchText(slides[i]), "x")
    /\ last.result = <<>>

\* search() with the arguments of the last call, the theme filter and the
\* section filter replaced by the given ones.
Relaxed(theme_filter, section_filter) ==
    search(slides, last.args.query, last.args.limit, theme_filter,
           last.args.label_filter, section_filter)

BothFilters ==
    /\ last.op = "search" /\ last.outcome = "ok"
    /\ Truthy(last.args.theme_filter)
    /\ Truthy(last.args.section_filter)

\* C7 as claimed: with a theme filter T and a section filter S, search()
\* returns only slides of theme T and section S, and each of them is also
\* returned, for the same query and limit, when either filter is removed.
C7_FilterMonotone ==
    BothFilters =>
        \A r \in SlidesOf(last.result) :
            /\ r.theme = last.args.theme_filter[1]
            /\ r.backend_section = last.args.section_filter[1]
            /\ r \in SlidesOf(Relaxed(None, last.args.section_filter))
            /\ r \in SlidesOf(Relaxed(last.args.theme_filter, None))

\* C7 as the code has it: the slides returned have theme T (letter case
\* ignored) and section S, and each of them is also returned when a filter is
\* removed provided the limit does not cut the result of that wider search.
Untruncated(theme_filter, section_filter) ==
    Len(search(slides, last.args.query, Len(slides), theme_filter,
               last.args.label_filter, section_filter)) <= last.args.limit

C7_FilterConjunctive ==
    BothFilters =>
        \A r \in SlidesOf(last.result) :
            /\ Lower(r.theme) = Lower(last.args.theme_filter[1])
            /\ r.backend_section = last.args.section_filter[1]
            /\ Untruncated(None, last.args.section_filter)
                 => r \in SlidesOf(Relaxed(None, last.args.section_filter))
            /\ Untruncated(last.args.theme_filter, None)
                 => r \in SlidesOf(Relaxed(last.args.theme_filter, None))

C7_Witness ==
    /\ BothFilters
    /\ last.result # <<>>
    /\ Untruncated(None, last.args.section_filter)
    /\ Len(Relaxed(None, last.args.section_filter)) > Len(last.result)

\* The sections select_slides_for_proposal() was asked for.
Requested ==
    IF last.args.sections # None /\ last.args.sections[1] # <<>>
    THEN Range(last.args.sections[1])
    ELSE Range(BACKEND_SECTIONS)

InSection(section) == {i \in 1..Len(slides) : slides[i].backend_section = section}

\* C8 as claimed: for every max_per_section the dict has no empty list, a
\* requested section without candidates is no key, and every key maps to
\* between 1 and max_per_section slides of that section.
C8_SelectBounds ==
    (last.op = "select_slides_for_proposal" /\ last.outcome = "ok") =>
        /\ \A k \in DOMAIN last.result :
             /\ Len(last.result[k]) >= 1
             /\ Len(last.result[k]) <= last.args.max_per_section
             /\ \A i \in 1..Len(last.result[k]) :
                    last.result[k][i].backend_section = k
        /\ \A s \in Requested : InSection(s) = {} => s \notin DOMAIN last.result

\* C8 as the code has it: the same, the upper bound max_per_section holding
\* when max_per_section is not negative.
C8_SelectNonEmpty ==
    (last.op = "select_slides_for_proposal" /\ last.outcome = "ok") =>
        /\ \A k \in DOMAIN last.result :
             /\ Len(last.result[k]) >= 1
             /\ last.args.max_per_section >= 0
                  => Len(last.result[k]) <= last.args.max_per_section
             /\ \A i \in 1..Len(last.result[k]) :
                    last.result[k][i].backend_section = k
        /\ \A s \in Requested : InSection(s) = {} => s \notin DOMAIN last.result

C8_Witness ==
    /\ last.op = "select_slides_for_proposal" /\ last.outcome = "ok"
    /\ last.args.max_per_section = 1
    /\ \E k \in DOMAIN last.result : Cardinality(InSection(k)) = 2
    /\ \E s \in Requested : s \notin DOMAIN last.result

\* ------------------------------------------------------------------------
\* Properties of the builder
\* ------------------------------------------------------------------------

\* Number of slides of the source file a clone was requested from.
SourceSlides(path) == Len(PptxFiles[path].slides)

\* C11: add_slide_from_library into an open deck with a source_slide_index
\* outside 0..n-1 of a source file of n slides raises IndexError and leaves the
\* deck and the tracked slide_count as they were.
C11_OutOfRangeRejected ==
    [][(/\ last'.op = "add_slide_from_library"
        /\ prs # None
        /\ last'.args.source_path \in DOMAIN PptxFiles
        /\ last'.args.source_slide_index \notin
               0..(SourceSlides(last'.args.source_path) - 1))
       => (/\ last'.outcome = "IndexError"
           /\ prs' = prs
           /\ slide_count' = slide_count)]_vars

\* C12: save and save_to_bytes raise RuntimeError on a builder without a deck
\* and change nothing; on a builder with a deck every save, whether or not the
\* path can be written, leaves the deck open and prs, slide_count and
\* sections_added as they were, and a save to a writable path succeeds, writes
\* that path and returns an absolute path.
C12_SaveKeepsActive ==
    [][(last'.op \in {"save", "save_to_bytes"})
       => (/\ prs' = prs
           /\ slide_count' = slide_count
           /\ sections_added' = sections_added
           /\ IF prs = None
              THEN last'.outcome = "RuntimeError" /\ saved' = saved
              ELSE \/ last'.op = "save_to_bytes" /\ last'.outcome = "ok"
                   \/ /\ last'.op = "save"
                      /\ last'.args.output_path \in Unwritable
                      /\ last'.outcome = "OSError"
                      /\ saved' = saved
                   \/ /\ last'.op = "save"
                      /\ last'.args.output_path \notin Unwritable
                      /\ last'.outcome = "ok"
                      /\ CharAt(last'.result.path, 1) = "/"
                      /\ saved' = saved \cup {PathStr(last'.args.output_path)})]_vars

\* A deck with slides and sections has been saved to two paths and is still
\* open.
C12_Witness ==
    /\ last.op = "save" /\ last.outcome = "ok"
    /\ Cardinality(saved) = 2
    /\ prs # None
    /\ slide_count = 2
    /\ sections_added # <<>>

MutatingOps ==
    {"add_title_slide", "add_section_divider", "add_section_slide",
     "add_slide_from_library", "build_full_proposal"}

\* C13: a deck-mutating operation on a builder without a deck raises the
\* RuntimeError that save raises and leaves slide_count and sections_added as
\* they were.
C13_NoDeckError ==
    [][(prs = None /\ last'.op \in MutatingOps)
       => (/\ last'.outcome = "RuntimeError"
           /\ slide_count' = slide_count
           /\ sections_added' = sections_added)]_vars

\* The elements of a sequence in order of first occurrence.
RECURSIVE Distinct(_)
Distinct(q) ==
    IF q = <<>> THEN <<>>
    ELSE LET d == Distinct(SubSeq(q, 1, Len(q) - 1))
         IN  IF q[Len(q)] \in Range(d) THEN d ELSE Append(d, q[Len(q)])

\* C14: get_build_summary returns in sections_added each added section type
\* once, in first-added order, and in sections_missing the canonical sections
\* that were not added, in canonical order.
C14_SummaryDistinct ==
    (last.op = "get_build_summary")
        => /\ last.result.sections_added = Distinct(sections_added)
           /\ last.result.sections_missing =
                  SelectSeq(section_order,
                            LAMBDA s : s \notin Range(last.result.sections_added))

\* C15: a builder operation that raises leaves the deck, slide_count and
\* sections_added as they were before the call.
C15_FailureLeavesDeck ==
    [][(/\ last'.op \in {"add_section_slide", "add_slide_from_library",
                         "add_title_slide", "build_full_proposal", "save"}
        /\ last'.outcome # "ok")
       => (/\ prs' = prs
           /\ slide_count' = slide_count
           /\ sections_added' = sections_added)]_vars

\* ------------------------------------------------------------------------
\* Properties of ranking and identity
\* ------------------------------------------------------------------------

\* The library of the scenario: theme "Exec Decks" with one slide file whose
\* text is 'Executive Summary: Why Foundever overview' and theme "Compliance"
\* with one whose text is 'SOC 2 certification and PCI audit'.
OnlyFile(theme_name) ==
    fs.entries[theme_name].files[CHOOSE f \in DOMAIN fs.entries[theme_name].files : TRUE]

IsScenario ==
    /\ fs.root = "dir"
    /\ DOMAIN fs.entries = {"Compliance", "Exec Decks"}
    /\ \A t \in DOMAIN fs.entries :
          fs.entries[t].is_dir /\ Cardinality(DOMAIN fs.entries[t].files) = 1
    /\ OnlyFile("Exec Decks").txt = "ok"
    /\ OnlyFile("Exec Decks").text = "Executive Summary: Why Foundever overview"
    /\ OnlyFile("Compliance").txt = "ok"
    /\ OnlyFile("Compliance").text = "SOC 2 certification and PCI audit"

\* slide is the k-th indexed slide, of the given theme, label and section.
IsSlide(slide, k, theme_name, label, section) ==
    /\ slide.id = "slide_" \o Pad4(k)
    /\ slide.theme = theme_name
    /\ slide.primary_label = label
    /\ slide.backend_section = section

\* The last call was search(query) with a limit of at least one.
Searched(query) ==
    last.op = "search" /\ last.args.query = query /\ last.args.limit >= 1

\* C16 as stated: in the scenario the first id goes to the Exec Decks slide
\* (executive_summary, section executive_summary) and the second to the
\* Compliance slide (compliance_security, section governance_compliance);
\* search("audit") returns exactly slide 2 with a nonzero score and
\* search("foundever") exactly slide 1.
C16_ScenarioAsStated ==
    (IsScenario /\ _indexed) =>
        /\ Len(slides) = 2
        /\ IsSlide(slides[1], 1, "Exec Decks", "executive_summary", "executive_summary")
        /\ IsSlide(slides[2], 2, "Compliance", "compliance_security",
                   "governance_compliance")
        /\ Searched("audit") =>
              /\ Len(last.result) = 1
              /\ last.result[1].slide = slides[2]
              /\ last.result[1].score > 0
        /\ Searched("foundever") =>
              /\ Len(last.result) = 1
              /\ last.result[1].slide = slides[1]

\* C16: in the scenario the themes are indexed in name order, so slide_0001 is
\* the Compliance slide (compliance_security, section governance_compliance)
\* and slide_0002 the Exec Decks slide (executive_summary, section
\* executive_summary); search("audit") returns exactly the Compliance slide
\* with a nonzero score and search("foundever") exactly the Exec Decks slide.
C16_Scenario ==
    (IsScenario /\ _indexed) =>
        /\ Len(slides) = 2
        /\ IsSlide(slides[1], 1, "Compliance", "compliance_security",
                   "governance_compliance")
        /\ IsSlide(slides[2], 2, "Exec Decks", "executive_summary", "executive_summary")
        /\ Searched("audit") =>
              /\ Len(last.result) = 1
              /\ last.result[1].slide = slides[1]
              /\ last.result[1].score > 0
        /\ Searched("foundever") =>
              /\ Len(last.result) = 1
              /\ last.result[1].slide = slides[2]

C16_Witness ==
    /\ IsScenario /\ _indexed
    /\ Searched("audit")
    /\ Len(last.result) = 1

\* The positions of the query terms that occur in the slide's search text.
TermHits(slide, terms) ==
    {i \in 1..Len(terms) : Contains(SearchText(slide), terms[i])}

ThemeHit(slide, terms) ==
    \E i \in 1..Len(terms) : Contains(Lower(slide.theme), terms[i])

\* min(1, n_matched / n_terms * (1.3 if theme_hit) * (0.5 + 0.5 * confidence))
\* as an exact fraction <<numerator, denominator>>.
ExactScore(n_matched, n_terms, theme_hit, confidence) ==
    LET num == n_matched * (IF theme_hit THEN 13 ELSE 10) * (1000 + confidence)
        den == n_terms * 10 * 2000
    IN  IF num > den THEN <<1, 1>> ELSE <<num, den>>

\* score (in thousandths) is the fraction x rounded to three decimals.
RoundsTo(score, x) ==
    /\ 2 * score * x[2] - 2000 * x[1] <= x[2]
    /\ 2000 * x[1] - 2 * score * x[2] <= x[2]

\* Every slide with a matching term is among the results, unless the limit
\* cut the list.
AllMatchesReturned(terms) ==
    Len(last.result) < last.args.limit =>
        \A k \in 1..Len(slides) :
            TermHits(slides[k], terms) # {} => slides[k] \in SlidesOf(last.result)

\* C18 as stated: the score of a returned slide is (distinct matched query
\* tokens) / (query tokens), times 1.3 on a theme-name hit, times
\* (0.5 + 0.5 * confidence), at most 1.0; it is in (0, 1], and a matching slide
\* is returned whatever its confidence.
C18_ScoreDistinct ==
    (last.op = "search" /\ last.outcome = "ok") =>
        LET terms == QueryTerms(last.args.query)
        IN  /\ \A i \in 1..Len(last.result) :
                  LET r == last.result[i]
                      distinct == {terms[j] : j \in TermHits(r.slide, terms)}
                  IN  /\ RoundsTo(r.score,
                                  ExactScore(Cardinality(distinct), Len(terms),
                                             ThemeHit(r.slide, terms),
                                             r.slide.confidence))
                      /\ r.score > 0 /\ r.score <= 1000
            /\ AllMatchesReturned(terms)

\* C18: the score of a returned slide is (query tokens found in the search
\* text, a repeated token counted once per repetition) / (query tokens,
\* repetitions included), times 1.3 on a theme-name hit, times
\* (0.5 + 0.5 * confidence), at most 1.0, rounded to three decimals; it is in
\* (0, 1], and a matching slide is returned whatever its confidence.
C18_ScoreOccurrences ==
    (last.op = "search" /\ last.outcome = "ok") =>
        LET terms == QueryTerms(last.args.query)
        IN  /\ \A i \in 1..Len(last.result) :
                  LET r == last.result[i]
                  IN  /\ RoundsTo(r.score,
                                  ExactScore(Cardinality(TermHits(r.slide, terms)),
                                             Len(terms), ThemeHit(r.slide, terms),
                                             r.slide.confidence))
                      /\ r.score > 0 /\ r.score <= 1000
            /\ AllMatchesReturned(terms)

\* A query with a repeated token returned a slide of confidence 0 and a slide
\* that matches the repeated token but not every token.
C18_Witness ==
    /\ last.op = "search" /\ last.outcome = "ok"
    /\ last.args.query = "pptx pptx deck"
    /\ \E i, j \in 1..Len(last.result) :
          /\ last.result[i].slide.confidence = 0
          /\ last.result[i].score > 0
          /\ Cardinality(TermHits(last.result[j].slide, QueryTerms(last.args.query))) = 2

\* Position of a slide in the index.
IndexPos(slide) == CHOOSE k \in 1..Len(slides) : slides[k] = slide

\* a ranks before b: higher score, or equal score and earlier in the index.
RanksBefore(a, b) ==
    \/ a.score > b.score
    \/ a.score = b.score /\ IndexPos(a.slide) < IndexPos(b.slide)

\* C19: the results of search() are in non-increasing score order with equal
\* scores in index order, and for a limit >= 0 they are the first limit
\* entries of that ordering of all the matching slides.
C19_RankedPrefix ==
    (last.op = "search" /\ last.outcome = "ok" /\ last.args.limit >= 0) =>
        LET all == Scored(slides, QueryTerms(last.args.query), last.args.theme_filter,
                          last.args.label_filter, last.args.section_filter)
            res == last.result
        IN  /\ Len(res) = (IF Len(all) < last.args.limit THEN Len(all)
                           ELSE last.args.limit)
            /\ Range(res) \subseteq Range(all)
            /\ \A i, j \in 1..Len(res) : i < j => RanksBefore(res[i], res[j])
            /\ \A x \in Range(all) \ Range(res) :
                  \A i \in 1..Len(res) : RanksBefore(res[i], x)

\* Two slides of equal score were returned.
C19_Witness ==
    /\ last.op = "search" /\ last.outcome = "ok"
    /\ Len(last.result) = 2
    /\ last.result[1].score = last.result[2].score

\* C20: the k-th slide of the index has id k, and the index lists the themes
\* in name order and, within a theme, the files in name order.
C20_SequentialIds ==
    /\ \A k \in 1..Len(slides) : slides[k].id = "slide_" \o Pad4(k)
    /\ \A i, j \in 1..Len(slides) :
          i < j => IF slides[i].theme = slides[j].theme
                   THEN StrLess(slides[i].file_name, slides[j].file_name)
                   ELSE StrLess(slides[i].theme, slides[j].theme)

\* Two themes with one slide each have been indexed.
C20_Witness ==
    /\ _indexed
    /\ Len(slides) = 2
    /\ slides[1].theme # slides[2].theme

\* ------------------------------------------------------------------------
\* Properties of index() next to readers
\* ------------------------------------------------------------------------

\* What get_library_stats() returns from the complete index of the directory.
CompleteStats ==
    LibraryStats(index(FreshManager, fs).slides, index(FreshManager, fs).themes)

\* C17: a reader of an indexed manager sees something else than the complete
\* index only when it runs in the middle of an index() that the callers do not
\* serialize against readers.
C17_TornOnlyUnserialized ==
    (/\ last.op = "get_library_stats"
     /\ (last.outcome # "ok" \/ last.result # CompleteStats))
        => ~scan.serialized

\* A reader saw slides of a theme that was not yet in the theme map.
C17_Witness ==
    /\ last.op = "get_library_stats"
    /\ ~scan.serialized
    /\ last.indexed_before /\ last.outcome = "ok"
    /\ last.result # CompleteStats
    /\ last.result.total_slides > 0
    /\ last.result.total_slides >
           SumOver(DOMAIN last.result.themes,
                   [n \in DOMAIN last.result.themes |-> last.result.themes[n].slides])

\* ------------------------------------------------------------------------
\* Properties of classification and section resolution
\* ------------------------------------------------------------------------

\* The keywords of a list that occur in the lowercased text s, by position.
KeywordHits(keywords, s) ==
    {k \in 1..Len(keywords) : Contains(s, KeywordLower[keywords[k]])}

\* The rows of the refinement table with at least two keywords in the text.
ReachTwo(text) ==
    {i \in 1..Len(SECTION_REFINEMENT) :
        Cardinality(KeywordHits(SECTION_REFINEMENT[i].keywords, Lower(text))) >= 2}

RefinementOrder ==
    <<"team_leadership", "technology", "delivery_model", "solution_overview">>

\* C21: for operational_details, _resolve_section returns the first section
\* in the order team_leadership, technology, delivery_model,
\* solution_overview with at least two keywords in the text, and
\* delivery_model when there is none; for every other label of the table it
\* returns the table entry, whatever the text.
C21_RefinementOrder ==
    (last.op = "_resolve_section") =>
        IF last.args.primary_label = "operational_details"
        THEN IF ReachTwo(last.args.text) = {}
             THEN last.result.section = "delivery_model"
             ELSE \E i \in ReachTwo(last.args.text) :
                      /\ \A j \in ReachTwo(last.args.text) : i <= j
                      /\ last.result.section = RefinementOrder[i]
        ELSE (last.args.primary_label \in DOMAIN LABEL_TO_PRIMARY_SECTION) =>
                 last.result.section =
                     LABEL_TO_PRIMARY_SECTION[last.args.primary_label]

\* An operational_details text reaches two keywords in two rows of the table
\* and is resolved to the earlier one, technology.
C21_Witness ==
    /\ last.op = "_resolve_section"
    /\ last.args.primary_label = "operational_details"
    /\ ReachTwo(last.args.text) = {2, 3}
    /\ last.result.section = "technology"

\* The clamped score of label i: matched / total, times 1.5 when a keyword of
\* the label occurs in the theme name, at most 1.
ClampedScore(i, lower_theme, combined) ==
    LET n == Cardinality(KeywordHits(LABEL_KEYWORDS[i].keywords, combined))
        d == Len(LABEL_KEYWORDS[i].keywords)
    IN  IF KeywordHits(LABEL_KEYWORDS[i].keywords, lower_theme) = {}
        THEN <<n, d>>
        ELSE IF 3 * n > 2 * d THEN <<1, 1>> ELSE <<3 * n, 2 * d>>

\* The labels with at least one keyword in the combined text.
Candidates(combined) ==
    {i \in 1..Len(LABEL_KEYWORDS) :
        KeywordHits(LABEL_KEYWORDS[i].keywords, combined) # {}}

\* Label i has the highest score, and is the earliest label that has it.
Wins(i, lower_theme, combined) ==
    \A j \in Candidates(combined) :
        /\ ~RatLess(ClampedScore(i, lower_theme, combined),
                    ClampedScore(j, lower_theme, combined))
        /\ (j < i => RatLess(ClampedScore(j, lower_theme, combined),
                             ClampedScore(i, lower_theme, combined)))

\* The text the keywords are looked up in (lines 297-303).
CombinedText(text, theme_name) ==
    Lower(theme_name) \o " " \o Lower(IF Strip(text) = "" THEN theme_name ELSE text)

WinnerReported(result, i, lower_theme, combined) ==
    /\ result.label = LABEL_KEYWORDS[i].label
    /\ result.confidence = Round3(ClampedScore(i, lower_theme, combined))
    /\ Len(result.matched_kw) =
           Cardinality(KeywordHits(LABEL_KEYWORDS[i].keywords, combined))
    /\ Range(result.matched_kw) =
           {LABEL_KEYWORDS[i].keywords[k] :
               k \in KeywordHits(LABEL_KEYWORDS[i].keywords, combined)}

\* C22: _classify_text returns the candidate label of highest clamped score,
\* the earliest of the lexicon among equals, with the confidence and the
\* matched keywords of that label.
C22_HighestEarliest ==
    (last.op = "_classify_text") =>
        \A i \in Candidates(CombinedText(last.args.text, last.args.theme_name)) :
            Wins(i, Lower(last.args.theme_name),
                 CombinedText(last.args.text, last.args.theme_name))
              => WinnerReported(last.result, i, Lower(last.args.theme_name),
                                CombinedText(last.args.text, last.args.theme_name))

\* Two labels had the same highest score and the earlier one was returned.
C22_Witness ==
    /\ last.op = "_classify_text"
    /\ last.result.label = "executive_summary"
    /\ \E j \in Candidates(CombinedText(last.args.text, last.args.theme_name)) :
          /\ LABEL_KEYWORDS[j].label = "pricing"
          /\ ClampedScore(j, Lower(last.args.theme_name),
                          CombinedText(last.args.text, last.args.theme_name))
                = ClampedScore(1, Lower(last.args.theme_name),
                               CombinedText(last.args.text, last.args.theme_name))

\* ------------------------------------------------------------------------
\* Properties of the builder's layouts, order and counters
\* ------------------------------------------------------------------------

\* The 0-based indexes of the layouts whose name contains "content".
ContentLayouts(deck) ==
    {i \in 0..(Len(deck.layouts) - 1) :
        Contains(NameLower[deck.layouts[i + 1]], "content")}

\* The layout of the slide at the end of the deck.
LastLayout(deck) == deck.slides[Len(deck.slides)].layout

\* C23: the slide add_section_slide adds is made from the first layout whose
\* name contains "content", at whatever index, and without such a layout from
\* the second layout, or the first when the deck has only one.
C23_ContentLayoutFirst ==
    (last.op = "add_section_slide" /\ last.outcome = "ok") =>
        IF ContentLayouts(prs[1]) # {}
        THEN \A i \in ContentLayouts(prs[1]) : LastLayout(prs[1]) <= i
        ELSE LastLayout(prs[1]) = (IF Len(prs[1].layouts) >= 2 THEN 1 ELSE 0)

\* The nine canonical sections, in order.
CanonicalSections ==
    [i \in 1..Len(SECTION_DISPLAY_NAMES) |-> SECTION_DISPLAY_NAMES[i].id]

\* The canonical sections that have content, in canonical order.
PresentSections(sections_content) ==
    SelectSeq(CanonicalSections, LAMBDA x : x \in DOMAIN sections_content)

\* Where the slides of the sections come from: per section a divider, made
\* the way a title slide is, when dividers are asked for, then the content
\* slide.
RECURSIVE SectionOrigins(_, _)
SectionOrigins(k, include_dividers) ==
    IF k = 0 THEN <<>>
    ELSE (IF include_dividers THEN <<"title", "section">> ELSE <<"section">>)
         \o SectionOrigins(k - 1, include_dividers)

ExpectedOrigins(present, include_dividers, title) ==
    (IF Truthy(title) THEN <<"title">> ELSE <<>>)
        \o SectionOrigins(Len(present), include_dividers)

\* The slides of deck after its first n.
SlidesAfter(deck, n) == SubSeq(deck.slides, n + 1, Len(deck.slides))

\* C24: a build_full_proposal that returns adds the title slide first when a
\* title is given, then for each canonical section with content, in canonical
\* order, a divider when dividers are asked for and right after it the content
\* slide, and nothing else: (1 if title) + k * (2 if dividers else 1) slides.
C24_CanonicalOrder ==
    [][(last'.op = "build_full_proposal" /\ last'.outcome = "ok" /\ prs # None)
       => LET present == PresentSections(last'.args.sections_content)
              before  == Len(prs[1].slides)
          IN  /\ Len(prs'[1].slides) - before
                    = (IF Truthy(last'.args.title) THEN 1 ELSE 0)
                        + Len(present) * (IF last'.args.include_dividers THEN 2 ELSE 1)
              /\ SubSeq(prs'[1].slides, 1, before) = prs[1].slides
              /\ [i \in 1..(Len(prs'[1].slides) - before) |->
                     SlidesAfter(prs'[1], before)[i].origin]
                    = ExpectedOrigins(present, last'.args.include_dividers,
                                      last'.args.title)
              /\ sections_added'
                    = sections_added
                        \o [i \in 1..Len(present) |->
                               last'.args.sections_content[present[i]].section_type]]_vars

\* A proposal with a title and two sections was built with dividers: the deck
\* is the title, then for each section its divider and its content slide, and
\* the sections are in canonical order.
C24_Witness ==
    /\ last.op = "build_full_proposal" /\ last.outcome = "ok"
    /\ Cardinality(DOMAIN last.args.sections_content) = 2
    /\ last.args.include_dividers /\ Truthy(last.args.title)
    /\ prs # None
    /\ [i \in 1..Len(prs[1].slides) |-> prs[1].slides[i].origin]
           = <<"title", "title", "section", "title", "section">>
    /\ sections_added = <<"executive_summary", "proof_points">>

AddOps ==
    {"add_title_slide", "add_section_divider", "add_section_slide",
     "add_slide_from_library"}

\* slide_count is the number of slides of the deck p.
Tracks(p, n) == p # None => n = Len(p[1].slides)

\* C26: an operation that returns on a builder whose slide_count is the number
\* of slides of the open deck leaves it so, and an add operation appends one
\* slide and returns its 0-based index.
C26_CountTracksDeck ==
    [][(Tracks(prs, slide_count) /\ last'.outcome = "ok")
       => /\ Tracks(prs', slide_count')
          /\ (last'.op \in AddOps) =>
                 /\ prs # None /\ prs' # None
                 /\ Len(prs'[1].slides) = Len(prs[1].slides) + 1
                 /\ last'.result.index = Len(prs'[1].slides) - 1]_vars

\* A slide was cloned into a deck that came with a slide of its own, and the
\* index returned is that of the clone.
C26_Witness ==
    /\ last.op = "add_slide_from_library" /\ last.outcome = "ok"
    /\ prs # None
    /\ Len(prs[1].slides) = 2
    /\ prs[1].slides[1].origin = "file"
    /\ slide_count = 2
    /\ last.result.index = 1

\* C29: create_blank and create_from_template empty sections_added,
\* open_existing leaves it as it is and sets slide_count to the number of
\* slides of the file opened, and get_build_summary reports slide_count and
\* sections_added as they are, with the canonical sections that are not in
\* sections_added as missing.
C29_OpenKeepsSections ==
    [][/\ (last'.op = "open_existing" /\ last'.outcome = "ok")
          => /\ sections_added' = sections_added
             /\ slide_count' = Len(PptxFiles[last'.args.file_path].slides)
             /\ prs' = Some(PptxFiles[last'.args.file_path])
       /\ (last'.op \in {"create_blank", "create_from_template"}
              /\ last'.outcome = "ok")
          => sections_added' = <<>>
       /\ (last'.op = "get_build_summary")
          => /\ last'.result.slide_count = slide_count
             /\ last'.result.sections_added = sections_added
             /\ last'.result.sections_missing
                   = SelectSeq(CanonicalSections,
                               LAMBDA x : x \notin Range(sections_added))]_vars

\* The summary of a deck just opened from a file, with one slide and no
\* section slide in it, lists a section added to the deck before.
C29_Witness ==
    /\ last.op = "get_build_summary"
    /\ prs = Some(PptxFiles["template.pptx"])
    /\ last.result.slide_count = 1
    /\ last.result.sections_added # <<>>
    /\ Head(last.result.sections_added) \notin Range(last.result.sections_missing)

\* ------------------------------------------------------------------------
\* Properties of retrieval by section and by label
\* ------------------------------------------------------------------------

\* Slide a comes before slide b: higher confidence, or the same confidence
\* and earlier in the index.
ConfidenceBefore(a, b) ==
    \/ a.confidence > b.confidence
    \/ a.confidence = b.confidence /\ IndexPos(a) < IndexPos(b)

\* res is the first limit entries of the slides whose field is value, ordered
\* by confidence with equal confidences in index order.
Retrieved(res, field, value, limit) ==
    LET all == {slides[k] : k \in {k \in 1..Len(slides) : slides[k][field] = value}}
    IN  /\ Range(res) \subseteq all
        /\ Len(res) = (IF Cardinality(all) < limit THEN Cardinality(all) ELSE limit)
        /\ \A i, j \in 1..Len(res) : i < j => ConfidenceBefore(res[i], res[j])
        /\ \A x \in all \ Range(res) :
              \A i \in 1..Len(res) : ConfidenceBefore(res[i], x)

\* C25: get_slides_for_section and get_slides_for_label return, for a limit
\* >= 0, the first limit of the slides whose backend_section (primary_label)
\* is the argument, by confidence with ties in index order, and the manager
\* holds the slides in index order afterwards.
C25_ExactSortedPrefix ==
    (last.op \in {"get_slides_for_section", "get_slides_for_label"}
        /\ last.outcome = "ok" /\ last.args.limit >= 0) =>
        /\ IF last.op = "get_slides_for_section"
           THEN Retrieved(last.result, "backend_section", last.args.section,
                          last.args.limit)
           ELSE Retrieved(last.result, "primary_label", last.args.label,
                          last.args.limit)
        /\ slides = index(FreshManager, fs).slides

\* Two slides of a section were returned in the reverse of their index order,
\* the more confident first.
C25_Witness ==
    /\ last.op = "get_slides_for_section" /\ last.outcome = "ok"
    /\ Len(last.result) = 2
    /\ last.result[1] = slides[2]
    /\ last.result[2] = slides[1]
    /\ slides[2].confidence > slides[1].confidence

\* C27: the label-to-section table and the refinement table have no entry
\* client_understanding and the lexicon has no label other; no indexed slide
\* has backend_section client_understanding or primary_label other,
\* get_slides_for_section("client_understanding") returns
\* nothing and select_slides_for_proposal has no key client_understanding.
C27_NoClientUnderstanding ==
    /\ \A l \in DOMAIN LABEL_TO_PRIMARY_SECTION :
          LABEL_TO_PRIMARY_SECTION[l] # "client_understanding"
    /\ \A i \in 1..Len(SECTION_REFINEMENT) :
          SECTION_REFINEMENT[i].section # "client_understanding"
    /\ \A i \in 1..Len(LABEL_KEYWORDS) : LABEL_KEYWORDS[i].label # "other"
    /\ \A k \in 1..Len(slides) :
          /\ slides[k].backend_section # "client_understanding"
          /\ slides[k].primary_label # "other"
    /\ (last.op = "get_slides_for_section" /\ last.outcome = "ok"
           /\ last.args.section = "client_understanding") => last.result = <<>>
    /\ (last.op = "select_slides_for_proposal" /\ last.outcome = "ok")
          => "client_understanding" \notin DOMAIN last.result

\* A selection that asked for client_understanding and governance_compliance
\* from a library of two slides got slides for the second only.
C27_Witness ==
    /\ last.op = "select_slides_for_proposal" /\ last.outcome = "ok"
    /\ last.args.sections = Some(<<"client_understanding", "governance_compliance">>)
    /\ Len(slides) = 2
    /\ DOMAIN last.result = {"governance_compliance"}

\* ------------------------------------------------------------------------
\* Properties of the classification fields of a slide
\* ------------------------------------------------------------------------

\* label, confidence (in thousandths) and matched keywords agree on whether
\* there is a signal, and the confidence is between 0 and 1.
NoSignalCoincide(label, confidence, matched) ==
    /\ (label = "unclassified") <=> (confidence = 0)
    /\ (confidence = 0) <=> (matched = <<>>)
    /\ confidence >= 0 /\ confidence <= 1000

\* What _classify_text returns for the texts and themes it is called with on
\* its own, computed once.
ClassifiedTexts ==
    [theme_name \in ClassifyThemes |->
        [text \in ClassifyTexts |-> _classify_text(text, theme_name)]]

\* C30: for every indexed slide, and for every result of _classify_text,
\* primary_label is unclassified exactly when confidence is 0 and exactly when
\* keywords_matched is empty, and confidence lies in [0, 1].
C30_NoSignalMarkers ==
    /\ \A k \in 1..Len(slides) :
          NoSignalCoincide(slides[k].primary_label, slides[k].confidence,
                           slides[k].keywords_matched)
    /\ \A theme_name \in ClassifyThemes, text \in ClassifyTexts :
          NoSignalCoincide(ClassifiedTexts[theme_name][text].label,
                           ClassifiedTexts[theme_name][text].confidence,
                           ClassifiedTexts[theme_name][text].matched_kw)

\* The index holds a slide without a signal and a slide with one, and a text
\* classified on its own reaches the clamp of 1.
C30_Witness ==
    /\ _indexed
    /\ \E k \in 1..Len(slides) : slides[k].primary_label = "unclassified"
    /\ \E k \in 1..Len(slides) : slides[k].confidence > 0
    /\ \E theme_name \in ClassifyThemes, text \in ClassifyTexts :
          ClassifiedTexts[theme_name][text].confidence = 1000

\* ------------------------------------------------------------------------
\* Properties of the slide library tools
\* ------------------------------------------------------------------------

\* C28: index_slide_library makes the manager of the path it is given the
\* process-wide one, also when the path does not exist; while the process-wide
\* manager is one of a missing path it holds no index, and every
\* search_slide_library and get_slide_library_stats ends with the
\* FileNotFoundError of a new scan.
C28_FailedIndexReplaces ==
    /\ (last.op = "index_slide_library")
          => _library_manager = Some(last.args.library_path)
    /\ (_library_manager # None /\ DiskAt(_library_manager[1]).root = "missing")
          => /\ ~_indexed
             /\ slides = <<>>
             /\ (last.op = "index_slide_library")
                   => last.result = [error |-> "FileNotFoundError"]
             /\ (last.op \in {"search_slide_library", "get_slide_library_stats"})
                   => last.outcome = "FileNotFoundError"

\* index_slide_library failed on a missing path while the process-wide
\* manager held the index of a library with slides.
C28_Witness ==
    /\ last.op = "index_slide_library"
    /\ last.indexed_before
    /\ last.result = [error |-> "FileNotFoundError"]
    /\ SlideFilesIn(fs.entries) > 0
    /\ slides = <<>>

====
